---- MODULE Spec2Model ----
(***************************************************************************)
(* Model of the rule evaluation engine of findspam.py: FindSpam.test_post  *)
(* iterating over FindSpam.rules for one post, the gate, the dispatch to   *)
(* the three detector shapes (pattern, procedural, whole-post), the        *)
(* aggregation of reasons and the construction of the explanation string.  *)
(*                                                                         *)
(* Strings that the engine builds or compares are sequences of character   *)
(* codes (reasons) or of tokens (explanation lines).  A detector is code   *)
(* supplied with the rule; what it does on the three texts of the post at  *)
(* hand is the rule's "det" component: on each text it reports a hit,      *)
(* reports no hit, or raises.                                              *)
(*                                                                         *)
(* The helper functions of the module (get_domain,                         *)
(* perform_similarity_checks, the external-lookup detectors, the ratio     *)
(* detectors) and the body normalisation are state machines of their own,  *)
(* each over the frame of one call; concurrent calls of test_post are      *)
(* frames over the class attribute FindSpam.rules.                         *)
(***************************************************************************)
EXTENDS Integers, Sequences, FiniteSets, TLC

\* one call of FindSpam.test_post
VARIABLES post, idx, rule, result, why, calls, pc, verdict
\* FindSpam.rules and the frames of concurrent calls of test_post
VARIABLES rules, evals
\* the frame of one call of get_domain, of perform_similarity_checks, of the
\* body normalisation of test_post, of an external-lookup detector and of
\* a ratio detector
VARIABLES gd, psc, norm, lk, dt
\* the frame of one call of generate_why with the scan that precedes it, of
\* post_links, of similar_answer, and of test_post for the rule of lines
\* 710-712
VARIABLES gw, pl, sa, ph

engine_vars == <<post, idx, rule, result, why, calls, pc, verdict>>

frame_vars == <<gw, pl, sa, ph>>

helper_vars == <<rules, evals, gd, psc, norm, lk, dt, frame_vars>>

vars == <<engine_vars, helper_vars>>

\* the value of a variable that belongs to a call which is not running
Idle == "idle"

\* no call of generate_why, post_links or similar_answer is running, nor
\* the call of test_post for the rule of lines 710-712
FramesIdle == gw = Idle /\ pl = Idle /\ sa = Idle /\ ph = Idle

----------------------------------------------------------------------------
(* Bounds of the model *)

MaxRules == 2          \* length of FindSpam.rules
MaxOwnerRep == 2       \* post.owner_rep ranges over 1..MaxOwnerRep
MaxPostScore == 1      \* post.post_score ranges over 0..MaxPostScore

----------------------------------------------------------------------------
(* Strings *)

\* character codes: the position of the letter in the alphabet, for a
\* capital letter that position less 32 (as 'P' is 32 below 'p')
PLACEHOLDER == 0       \* stands for the two characters "{}" of a template

name_title == <<20, 9, 20, 12, 5>>
name_username == <<21, 19, 5, 18, 14, 1, 13, 5>>
name_body == <<2, 15, 4, 25>>
name_answer == <<1, 14, 19, 23, 5, 18>>

RECURSIVE str_replace(_, _)
\* template.replace("{}", name)
str_replace(template, name) ==
    IF template = <<>> THEN <<>>
    ELSE IF Head(template) = PLACEHOLDER
         THEN name \o str_replace(Tail(template), name)
         ELSE <<Head(template)>> \o str_replace(Tail(template), name)

RECURSIVE str_less(_, _)
\* a < b for Python strings: lexicographic order by code point
str_less(a, b) ==
    IF b = <<>> THEN FALSE
    ELSE IF a = <<>> THEN TRUE
    ELSE IF Head(a) # Head(b) THEN Head(a) < Head(b)
    ELSE str_less(Tail(a), Tail(b))

seq_to_set(s) == {s[k] : k \in 1..Len(s)}

RECURSIVE sorted_descending(_)
\* the list sorted the wrong way round
sorted_descending(S) ==
    IF S = {} THEN <<>>
    ELSE LET m == CHOOSE x \in S : \A y \in S \ {x} : str_less(y, x)
         IN  <<m>> \o sorted_descending(S \ {m})

RECURSIVE sorted_list(_)
\* list(S) followed by list.sort()
sorted_list(S) ==
    IF S = {} THEN <<>>
    ELSE LET m == CHOOSE x \in S : \A y \in S \ {x} : str_less(x, y)
         IN  <<m>> \o sorted_list(S \ {m})

RECURSIVE filter_none(_)
\* filter(None, lines): drops the empty strings
filter_none(lines) ==
    IF lines = <<>> THEN <<>>
    ELSE IF Head(lines) = <<>> THEN filter_none(Tail(lines))
    ELSE <<Head(lines)>> \o filter_none(Tail(lines))

RECURSIVE join_lines(_)
\* "\n".join(lines)
join_lines(lines) ==
    IF lines = <<>> THEN <<>>
    ELSE IF Len(lines) = 1 THEN Head(lines)
    ELSE Head(lines) \o <<"\n">> \o join_lines(Tail(lines))

Whitespace == {"\n", " "}

RECURSIVE lstrip(_)
lstrip(s) ==
    IF s # <<>> /\ Head(s) \in Whitespace THEN lstrip(Tail(s)) ELSE s

RECURSIVE rstrip(_)
rstrip(s) ==
    IF s # <<>> /\ s[Len(s)] \in Whitespace
    THEN rstrip(SubSeq(s, 1, Len(s) - 1)) ELSE s

\* str.strip()
strip(s) == rstrip(lstrip(s))

----------------------------------------------------------------------------
(* Posts and rules *)

Sites == {"siteA", "siteB"}

\* the three texts of a post, as token sequences: "shy" is a soft hyphen
\* or a zero-width character, "<pre>", "</pre>", "<code>" and "</code>" are
\* the tags of code spans, "img" and "a" are complete <img ...> and <a ...>
\* tags, every other token is text
Titles == {<<"t">>}
UserNames == {<<"u">>}
Bodies == {<<"b", "shy", "<code>", "c", "</code>", "img">>}

PostFields ==
    [title : Titles, body : Bodies, user_name : UserNames,
     post_site : Sites, owner_rep : 1..MaxOwnerRep,
     post_score : 0..MaxPostScore,
     is_answer : BOOLEAN, body_is_summary : BOOLEAN]

\* questions with a full body, of any site, reputation and score
ScopePosts == {p \in PostFields : ~p.is_answer /\ ~p.body_is_summary}

\* questions and answers with a full body, by a user of reputation 1 with
\* score 0 on siteA
FieldPosts ==
    {p \in PostFields : /\ p.post_site = "siteA" /\ p.owner_rep = 1 /\ p.post_score = 0
                        /\ ~p.body_is_summary}

\* questions and answers, with a full or a summarized body, by a user of
\* reputation 1 with score 0 on siteB
BodyPosts ==
    {p \in PostFields : p.post_site = "siteB" /\ p.owner_rep = 1 /\ p.post_score = 0}

Posts == ScopePosts \cup FieldPosts \cup BodyPosts

\* reason templates: "x{}" and "m" (no placeholder)
reason_x == <<24, PLACEHOLDER>>
reason_m == <<13>>
\* 'Phone number detected in {}', the literal tested at line 1122
reason_phone == <<16 - 32, 8, 15, 14, 5, PLACEHOLDER>>
\* "phone number detected in {}", the reason of the rules of lines 971-978
reason_phone_rule == <<16, 8, 15, 14, 5, PLACEHOLDER>>

Reasons == {reason_x, reason_m, reason_phone_rule}

Outcome == {"hit", "miss", "raise"}

Kinds == {"regex", "method", "whole_post"}

\* the optional keys 'answers' and 'questions' of a rule
OptFlag == {"absent", "True", "False"}

Dets == [title : Outcome, username : Outcome, body : Outcome]

HitMiss == {"hit", "miss"}

AllHit == [title |-> "hit", username |-> "hit", body |-> "hit"]

\* a rule that applies on every site except siteA, to every field of every
\* kind of post (max_rep 1, max_score 0 as the rules of lines 1073-1078)
BaseRule ==
    [kind |-> "regex", all |-> TRUE, sites |-> {"siteA"}, max_rep |-> 1, max_score |-> 0,
     title |-> TRUE, body |-> TRUE, username |-> TRUE,
     body_summary |-> TRUE, answers |-> "absent", questions |-> "absent",
     stripcodeblocks |-> FALSE, reason |-> reason_x, det |-> AllHit]

\* the same rule, for siteA only
OnlyRule == [BaseRule EXCEPT !.all = FALSE]

\* rules that differ in their scope and ceilings
ScopeRules ==
    {[BaseRule EXCEPT !.kind = k, !.all = a, !.sites = s,
                      !.max_rep = mr, !.max_score = ms] :
        k \in Kinds, a \in BOOLEAN, s \in {{}, {"siteA"}},
        mr \in {1, 2}, ms \in {0, 1}}

\* pattern and procedural rules that differ in their field flags and in
\* what their detector finds
FieldRules ==
    {[OnlyRule EXCEPT !.kind = k, !.title = f[1], !.username = f[2], !.body = f[3],
                      !.det = d] :
        k \in {"regex", "method"}, f \in BOOLEAN \X BOOLEAN \X BOOLEAN,
        d \in [title : HitMiss, username : HitMiss, body : HitMiss]}

\* whole-post rules: no field flag set (as the rule of lines 1086-1089),
\* or all of them
WholeRules ==
    {[OnlyRule EXCEPT !.kind = "whole_post", !.title = f, !.username = f, !.body = f,
                      !.det = d] :
        f \in BOOLEAN,
        d \in [title : HitMiss, username : HitMiss, body : HitMiss]}

\* rules that differ in their restrictions on the body
BodyRules ==
    {[BaseRule EXCEPT !.kind = k, !.body = b, !.body_summary = s,
                      !.answers = a, !.questions = q] :
        k \in {"regex", "method"}, b \in BOOLEAN, s \in BOOLEAN,
        a \in OptFlag, q \in OptFlag}

\* rules whose reason has no placeholder
PlainRules == {[OnlyRule EXCEPT !.kind = k, !.reason = reason_m] : k \in Kinds}

\* rules whose detector raises on one of the texts
RaisingRules ==
    {[OnlyRule EXCEPT !.kind = k, !.det = d] :
        k \in Kinds,
        d \in {[title |-> "raise", username |-> "miss", body |-> "miss"],
               [title |-> "hit", username |-> "raise", body |-> "miss"],
               [title |-> "miss", username |-> "miss", body |-> "raise"]}}

\* the phone-number rules of lines 971-978: a procedural rule for the
\* title and a pattern rule for the body, both with 'stripcodeblocks'
PhoneRules ==
    {[BaseRule EXCEPT !.kind = "method", !.reason = reason_phone_rule,
                      !.stripcodeblocks = TRUE, !.body = FALSE, !.username = FALSE,
                      !.body_summary = FALSE],
     [BaseRule EXCEPT !.kind = "regex", !.reason = reason_phone_rule,
                      !.stripcodeblocks = TRUE, !.title = FALSE, !.username = FALSE]}

Rules ==
    ScopeRules \cup FieldRules \cup WholeRules \cup BodyRules \cup PlainRules
    \cup RaisingRules \cup PhoneRules

NoRule == [kind |-> "none"]

----------------------------------------------------------------------------
(* One iteration of the loop of test_post, lines 1103-1176 *)

check_if_answer(r) == IF r.answers = "absent" THEN TRUE ELSE r.answers = "True"

check_if_question(r) == IF r.questions = "absent" THEN TRUE ELSE r.questions = "True"

RECURSIVE sub_tokens(_, _, _)
\* regex.sub over the tokens of a text: every token of the set is replaced
sub_tokens(text, tokens, repl) ==
    IF text = <<>> THEN <<>>
    ELSE (IF Head(text) \in tokens THEN repl ELSE <<Head(text)>>)
         \o sub_tokens(Tail(text), tokens, repl)

\* u"<pre><code>placeholder for omitted code/... block</pre></code>"
CODE_PLACEHOLDER == <<"<pre>", "<code>", "placeholder", "</pre>", "</code>">>

RECURSIVE sub_span(_, _, _, _)
\* regex.sub("(?s)" + open + ".*?" + close, repl, text): from left to right,
\* every opening tag with a closing tag somewhere after it is replaced,
\* together with everything up to the first such closing tag; the
\* replacement is not scanned again
sub_span(text, open, close, repl) ==
    IF text = <<>> THEN <<>>
    ELSE IF Head(text) = open /\ \E k \in 2..Len(text) : text[k] = close
    THEN LET k == CHOOSE k \in 2..Len(text) :
                      text[k] = close /\ \A j \in 2..(k - 1) : text[j] # close
         IN  repl \o sub_span(SubSeq(text, k + 1, Len(text)), open, close, repl)
    ELSE <<Head(text)>> \o sub_span(Tail(text), open, close, repl)

\* lines 1114-1121: the <pre> spans first, the <code> spans of the outcome next
strip_code_blocks(text) ==
    sub_span(sub_span(text, "<pre>", "</pre>", CODE_PLACEHOLDER),
             "<code>", "</code>", CODE_PLACEHOLDER)

\* the reason compared with the literal of line 1122 without regard to case
body_to_check_ignoring_case(r, p) ==
    LET b1 == sub_tokens(p.body, {"shy"}, <<>>)
        b2 == IF r.stripcodeblocks THEN strip_code_blocks(b1) ELSE b1
    IN  IF r.reason \in {reason_phone, reason_phone_rule}
        THEN sub_tokens(b2, {"img", "a"}, <<>>) ELSE b2

\* lines 1103 and 1113-1124
body_to_check(r, p) ==
    LET b1 == sub_tokens(p.body, {"shy"}, <<>>)
        b2 == IF r.stripcodeblocks THEN strip_code_blocks(b1) ELSE b1
    IN  IF r.reason = reason_phone THEN sub_tokens(b2, {"img", "a"}, <<>>) ELSE b2

\* the scope test with the comparison inverted
Gate_scope_inverted(r, p) ==
    /\ r.all = (p.post_site \in r.sites)
    /\ p.owner_rep <= r.max_rep
    /\ p.post_score <= r.max_score

\* the gate without its score ceiling
Gate_no_score_ceiling(r, p) ==
    /\ r.all # (p.post_site \in r.sites)
    /\ p.owner_rep <= r.max_rep

\* line 1125
Gate(r, p) ==
    /\ r.all # (p.post_site \in r.sites)
    /\ p.owner_rep <= r.max_rep
    /\ p.post_score <= r.max_score

\* the body restrictions without the 'questions' key
BodyApplies_no_questions(r, p) ==
    /\ ~p.body_is_summary \/ r.body_summary
    /\ ~p.is_answer \/ check_if_answer(r)

\* lines 1134-1136 and 1160-1162
BodyApplies(r, p) ==
    /\ ~p.body_is_summary \/ r.body_summary
    /\ ~p.is_answer \/ check_if_answer(r)
    /\ p.is_answer \/ check_if_question(r)

\* a call made on behalf of the rule's detector
Call(fn, text, site, aux, whole, out) ==
    [fn |-> fn, text |-> text, site |-> site, aux |-> aux, whole |-> whole, out |-> out]

whole_out(r) ==
    IF "raise" \in {r.det.title, r.det.username, r.det.body} THEN "raise" ELSE "ok"

\* the procedural detector called on the username only if the flag is set
planned_calls_username_flag(r, p) ==
    IF r.kind = "regex"
    THEN <<Call("compile", <<>>, "", <<>>, FALSE, "ok"),
           Call("findall", p.title, "", <<>>, FALSE, r.det.title),
           Call("findall", p.user_name, "", <<>>, FALSE, r.det.username)>>
         \o (IF BodyApplies(r, p)
             THEN <<Call("findall", body_to_check(r, p), "", <<>>, FALSE, r.det.body)>>
             ELSE <<>>)
    ELSE IF r.kind = "whole_post"
    THEN <<Call("method", <<>>, "", <<>>, TRUE, whole_out(r))>>
    ELSE <<Call("method", p.title, p.post_site, p.user_name, FALSE, r.det.title)>>
         \o (IF r.username
             THEN <<Call("method", p.user_name, p.post_site, p.user_name, FALSE,
                         r.det.username)>>
             ELSE <<>>)
         \o (IF BodyApplies(r, p)
             THEN <<Call("method", body_to_check(r, p), p.post_site, p.user_name,
                         FALSE, r.det.body)>>
             ELSE <<>>)

\* the detector calls of lines 1129-1165, in program order, if none raised
planned_calls(r, p) ==
    IF r.kind = "regex"
    THEN <<Call("compile", <<>>, "", <<>>, FALSE, "ok"),
           Call("findall", p.title, "", <<>>, FALSE, r.det.title),
           Call("findall", p.user_name, "", <<>>, FALSE, r.det.username)>>
         \o (IF BodyApplies(r, p)
             THEN <<Call("findall", body_to_check(r, p), "", <<>>, FALSE, r.det.body)>>
             ELSE <<>>)
    ELSE IF r.kind = "whole_post"
    THEN <<Call("method", <<>>, "", <<>>, TRUE, whole_out(r))>>
    ELSE <<Call("method", p.title, p.post_site, p.user_name, FALSE, r.det.title),
           Call("method", p.user_name, p.post_site, p.user_name, FALSE, r.det.username)>>
         \o (IF BodyApplies(r, p)
             THEN <<Call("method", body_to_check(r, p), p.post_site, p.user_name,
                         FALSE, r.det.body)>>
             ELSE <<>>)

RECURSIVE until_raise(_)
\* the calls actually made: a raise ends the evaluation
until_raise(cs) ==
    IF cs = <<>> THEN <<>>
    ELSE IF Head(cs).out = "raise" THEN <<Head(cs)>>
    ELSE <<Head(cs)>> \o until_raise(Tail(cs))

\* the detector invoked before the gate is looked at
detector_calls_ungated(r, p) == until_raise(planned_calls(r, p))

detector_calls(r, p) == IF Gate(r, p) THEN until_raise(planned_calls(r, p)) ELSE <<>>

Raises(r, p) ==
    LET cs == detector_calls(r, p)
    IN  cs # <<>> /\ cs[Len(cs)].out = "raise"

\* the title matched only where the body is matched
matched_title_body_gated(r, p) == BodyApplies(r, p) /\ r.det.title = "hit"

matched_title(r, p) == r.det.title = "hit"

matched_username(r, p) == r.det.username = "hit"

matched_body(r, p) ==
    IF r.kind = "whole_post" THEN r.det.body = "hit"
    ELSE BodyApplies(r, p) /\ r.det.body = "hit"

is_regex_check(r) == r.kind = "regex"

\* FindSpam.generate_why: the position list of a pattern, "" otherwise
generate_why(r, type_of_text) ==
    IF is_regex_check(r) THEN <<type_of_text, " - ", "Position">> ELSE <<>>

\* u"Title - {}".format(why_title)
format_why(prefix, why_text) == <<prefix, " - ", why_text>>

\* the body always named "body"
type_of_post_body(p) == name_body

type_of_post(p) == IF p.is_answer THEN name_answer ELSE name_body

If(c, s) == IF c THEN s ELSE <<>>

\* lines 1141-1152, the whole-post branch
whole_title(r, p) == r.kind = "whole_post" /\ matched_title(r, p)

\* the username looked at by an 'if' of its own
whole_username_if(r, p) == r.kind = "whole_post" /\ matched_username(r, p)

\* the 'elif' of line 1147
whole_username(r, p) == r.kind = "whole_post" /\ ~matched_title(r, p) /\ matched_username(r, p)

\* a body hit of a whole-post detector recorded only if the flag is set
whole_body_flag(r, p) ==
    /\ r.kind = "whole_post" /\ ~matched_title(r, p) /\ ~matched_username(r, p)
    /\ matched_body(r, p) /\ r.body

whole_body(r, p) ==
    r.kind = "whole_post" /\ ~matched_title(r, p) /\ ~matched_username(r, p) /\ matched_body(r, p)

\* the line of the procedural detector appended whatever the title flag
why_title_add_unflagged(r, p) ==
    If(whole_title(r, p), <<format_why("Title", "why_post")>>)
    \o If(r.kind = "method" /\ matched_title(r, p), <<format_why("Title", "why_title")>>)
    \o If(matched_title(r, p) /\ r.title, <<generate_why(r, "Title")>>)

\* what one gate-passing, non-raising iteration appends to why["title"]
why_title_add(r, p) ==
    If(whole_title(r, p), <<format_why("Title", "why_post")>>)
    \o If(r.kind = "method" /\ matched_title(r, p) /\ r.title,
          <<format_why("Title", "why_title")>>)
    \o If(matched_title(r, p) /\ r.title, <<generate_why(r, "Title")>>)

why_username_add(r, p) ==
    If(whole_username(r, p), <<format_why("Username", "why_post")>>)
    \o If(r.kind = "method" /\ matched_username(r, p) /\ r.username,
          <<format_why("Username", "why_username")>>)
    \o If(matched_username(r, p) /\ r.username, <<generate_why(r, "Username")>>)

why_body_add(r, p) ==
    If(whole_body(r, p), <<format_why("Post", "why_post")>>)
    \o If(r.kind = "method" /\ matched_body(r, p) /\ r.body,
          <<format_why("Post", "why_body")>>)
    \o If(matched_body(r, p) /\ r.body, <<generate_why(r, "Body")>>)

\* the reason of a title hit appended whatever the title flag
result_add_unflagged(r, p) ==
    If(whole_title(r, p), <<str_replace(r.reason, name_title)>>)
    \o If(whole_username(r, p), <<str_replace(r.reason, name_username)>>)
    \o If(whole_body(r, p), <<str_replace(r.reason, name_body)>>)
    \o If(matched_title(r, p), <<str_replace(r.reason, name_title)>>)
    \o If(matched_username(r, p) /\ r.username, <<str_replace(r.reason, name_username)>>)
    \o If(matched_body(r, p) /\ r.body, <<str_replace(r.reason, type_of_post(p))>>)

\* what one gate-passing, non-raising iteration appends to result
result_add(r, p) ==
    If(whole_title(r, p), <<str_replace(r.reason, name_title)>>)
    \o If(whole_username(r, p), <<str_replace(r.reason, name_username)>>)
    \o If(whole_body(r, p), <<str_replace(r.reason, name_body)>>)
    \o If(matched_title(r, p) /\ r.title, <<str_replace(r.reason, name_title)>>)
    \o If(matched_username(r, p) /\ r.username, <<str_replace(r.reason, name_username)>>)
    \o If(matched_body(r, p) /\ r.body, <<str_replace(r.reason, type_of_post(p))>>)

\* the generate_why scans of lines 1167-1174
why_calls(r, p) ==
    IF ~is_regex_check(r) THEN <<>>
    ELSE If(matched_title(r, p) /\ r.title,
            <<Call("finditer", p.title, "", <<>>, FALSE, "ok")>>)
      \o If(matched_username(r, p) /\ r.username,
            <<Call("finditer", p.user_name, "", <<>>, FALSE, "ok")>>)
      \o If(matched_body(r, p) /\ r.body,
            <<Call("finditer", body_to_check(r, p), "", <<>>, FALSE, "ok")>>)

----------------------------------------------------------------------------
(* test_post as a state machine *)

Init ==
    /\ post \in Posts
    /\ idx = 0
    /\ rule = NoRule
    /\ result = <<>>
    /\ why = [title |-> <<>>, body |-> <<>>, username |-> <<>>]
    /\ calls = <<>>
    /\ pc = "loop"
    /\ verdict = [reasons |-> <<>>, why |-> <<>>]
    /\ rules = Idle /\ evals = Idle
    /\ gd = Idle /\ psc = Idle /\ norm = Idle /\ lk = Idle /\ dt = Idle
    /\ FramesIdle

\* the rule's gate fails: lines 1103-1126, nothing else happens
SkipRule(r) ==
    /\ ~Gate(r, post)
    /\ rule' = r /\ idx' = idx + 1
    /\ calls' = detector_calls(r, post)
    /\ pc' = "iterated"
    /\ UNCHANGED <<post, result, why, verdict, helper_vars>>

\* the rule's gate passes and its detector returns: lines 1103-1176
ApplyRule(r) ==
    /\ Gate(r, post) /\ ~Raises(r, post)
    /\ rule' = r /\ idx' = idx + 1
    /\ calls' = detector_calls(r, post) \o why_calls(r, post)
    /\ result' = result \o result_add(r, post)
    /\ why' = [title |-> why.title \o why_title_add(r, post),
               body |-> why.body \o why_body_add(r, post),
               username |-> why.username \o why_username_add(r, post)]
    /\ pc' = "iterated"
    /\ UNCHANGED <<post, verdict, helper_vars>>

\* the rule's gate passes and its detector raises: nothing in test_post
\* catches the error, the call ends without a verdict
RuleRaises(r) ==
    /\ Gate(r, post) /\ Raises(r, post)
    /\ rule' = r /\ idx' = idx + 1
    /\ calls' = detector_calls(r, post)
    /\ pc' = "raised"
    /\ UNCHANGED <<post, result, why, verdict, helper_vars>>

\* line 1102: the end of the loop body, back to the head of the loop; the
\* variables of the iteration are rebound by the next one
Continue ==
    /\ pc = "iterated"
    /\ pc' = "loop"
    /\ rule' = NoRule
    /\ calls' = <<>>
    /\ UNCHANGED <<post, idx, result, why, verdict, helper_vars>>

\* the buckets chained in the order in which an iteration fills them
chain_why_username_first(w) ==
    filter_none(w.title) \o filter_none(w.username) \o filter_none(w.body)

\* chain(filter(None, why["title"]), filter(None, why["body"]),
\*       filter(None, why["username"]))
chain_why(w) == filter_none(w.title) \o filter_none(w.body) \o filter_none(w.username)

\* lines 1177-1181, after the last rule
Return ==
    /\ pc = "loop"
    /\ verdict' = [reasons |-> sorted_list(seq_to_set(result)),
                   why |-> strip(join_lines(chain_why(why)))]
    /\ pc' = "done"
    /\ UNCHANGED <<post, idx, rule, result, why, calls, helper_vars>>

\* line 1102: the loop fetches the next rule of FindSpam.rules, if any
AtRule == pc = "loop" /\ idx < MaxRules

Next ==
    \/ AtRule /\ \E r \in Rules : SkipRule(r)
    \/ AtRule /\ \E r \in Rules : ApplyRule(r)
    \/ AtRule /\ \E r \in Rules : RuleRaises(r)
    \/ Continue
    \/ Return

Spec == Init /\ [][Next]_vars

----------------------------------------------------------------------------
(* Vocabulary of the properties *)

\* one iteration of the loop has just been made for rule'
RuleStep == idx' = idx + 1

\* exclusive or
Xor(a, b) == (a /\ ~b) \/ (~a /\ b)

ScopeMatch(r, p) == Xor(r.all, p.post_site \in r.sites)

GatePasses(r, p) ==
    ScopeMatch(r, p) /\ p.owner_rep <= r.max_rep /\ p.post_score <= r.max_score

\* the condition under which the body of a post is matched at all
BodyCondition(r, p) ==
    /\ ~p.body_is_summary \/ r.body_summary
    /\ ~p.is_answer \/ r.answers \in {"absent", "True"}
    /\ p.is_answer \/ r.questions \in {"absent", "True"}

\* what the iteration appended to result and to a bucket of why
AddedReasons == SubSeq(result', Len(result) + 1, Len(result'))

AddedLines(bucket) ==
    filter_none(SubSeq(why'[bucket], Len(why[bucket]) + 1, Len(why'[bucket])))

NothingAdded == result' = result /\ why' = why

\* a < b in lexicographic order, by positions
LexLess(a, b) ==
    \E k \in 1..(Len(b)) :
        /\ \A j \in 1..(k - 1) : j <= Len(a) /\ a[j] = b[j]
        /\ (k > Len(a) \/ (k <= Len(a) /\ a[k] < b[k]))

FieldNames == {"title", "username", "body"}

FieldText(r, p, f) ==
    IF f = "title" THEN p.title
    ELSE IF f = "username" THEN p.user_name
    ELSE body_to_check(r, p)

FieldWord(f) ==
    IF f = "title" THEN name_title
    ELSE IF f = "username" THEN name_username
    ELSE name_body

\* the detector of rule' has reported a hit on field f in this iteration
HitReported(f) ==
    IF rule'.kind = "whole_post"
    THEN calls' # <<>> /\ calls'[1].whole /\ calls'[1].out = "ok" /\ rule'.det[f] = "hit"
    ELSE \E k \in 1..Len(calls') :
            /\ calls'[k].fn \in {"findall", "method"}
            /\ calls'[k].text = FieldText(rule', post, f)
            /\ calls'[k].out = "hit"

----------------------------------------------------------------------------
(* C1: the gate of a rule passes (its detector is invoked) exactly when    *)
(* (all XOR site in sites) and owner_rep <= max_rep and post_score <=      *)
(* max_score; a rule whose scope test fails adds no reason and no          *)
(* explanation, whatever the reputation, the score and the content.        *)
C1_GateCorrect ==
    [][RuleStep =>
        /\ GatePasses(rule', post) <=> calls' # <<>>
        /\ ~ScopeMatch(rule', post) => NothingAdded]_vars

\* Scenario E: an all-except rule on a site of its set, matching content
C1_Witness ==
    /\ pc = "iterated" /\ rule.all /\ post.post_site \in rule.sites
    /\ rule.det = AllHit /\ rule.title /\ rule.body /\ rule.username
    /\ post.owner_rep <= rule.max_rep /\ post.post_score <= rule.max_score
    /\ calls = <<>> /\ result = <<>>

(* C2: a rule adds no reason and no explanation line for a post whose      *)
(* owner_rep exceeds max_rep or whose post_score exceeds max_score, even   *)
(* if its detector would match every field; a post exactly at both         *)
(* ceilings is still eligible (the detector runs).                         *)
C2_CeilingEnforced ==
    [][RuleStep =>
        /\ (post.owner_rep > rule'.max_rep \/ post.post_score > rule'.max_score)
               => NothingAdded
        /\ (/\ ScopeMatch(rule', post)
            /\ post.owner_rep = rule'.max_rep
            /\ post.post_score = rule'.max_score) => calls' # <<>>]_vars

C2_Witness ==
    /\ pc = "iterated" /\ ScopeMatch(rule, post)
    /\ post.owner_rep > rule.max_rep /\ post.post_score <= rule.max_score
    /\ rule.det = AllHit /\ rule.title /\ rule.body /\ rule.username
    /\ result = <<>> /\ why.title = <<>>

(* C3: a detector that raises never keeps test_post from returning a       *)
(* verdict: the call never ends with an error.                             *)
C3_ExceptionIsolation == pc # "raised"

(* C4: for a rule whose gate fails no detector work is done: no pattern    *)
(* is compiled or matched and no function is called.                       *)
C4_GateBeforeDetector ==
    pc = "iterated" /\ ~GatePasses(rule, post) => calls = <<>>

C4_Witness ==
    /\ pc = "iterated" /\ ~GatePasses(rule, post)
    /\ rule.kind = "method" /\ rule.det = AllHit /\ calls = <<>>

DueTexts(r, p) ==
    <<p.title, p.user_name>>
    \o (IF BodyCondition(r, p) THEN <<body_to_check(r, p)>> ELSE <<>>)

C6_BodyGating ==
    [][RuleStep /\ rule'.kind \in {"regex", "method"} /\ ~BodyCondition(rule', post) =>
        /\ \A k \in 1..Len(calls') : calls'[k].text # body_to_check(rule', post)
        /\ why'.body = why.body
        /\ \A k \in 1..Len(AddedReasons) :
               AddedReasons[k] \in {str_replace(rule'.reason, name_title),
                                    str_replace(rule'.reason, name_username)}]_vars

C6_Witness ==
    /\ pc = "iterated" /\ rule.kind = "regex" /\ GatePasses(rule, post)
    /\ post.is_answer /\ rule.answers = "False" /\ ~post.body_is_summary
    /\ rule.body /\ rule.det = AllHit
    /\ Len(calls) > 0 /\ why.body = <<>> /\ Len(result) = 2

(* C7: the reasons of the verdict are the distinct strings of result, in   *)
(* strictly ascending lexicographic order.                                 *)
C7_ReasonsSortedUnique ==
    pc = "done" =>
        /\ seq_to_set(verdict.reasons) = seq_to_set(result)
        /\ \A i, j \in 1..Len(verdict.reasons) :
               i < j => LexLess(verdict.reasons[i], verdict.reasons[j])

\* after two rules: the same reason recorded twice, and reasons recorded in
\* an order that is not the sorted one
C7_Witness ==
    /\ pc = "done" /\ idx = 2
    /\ Len(result) > Cardinality(seq_to_set(result))
    /\ Len(verdict.reasons) >= 3
    /\ LexLess(result[2], result[1])

BlockWords == {"Title", "Body", "Post", "Username"}

BlockRank(word) == IF word = "Title" THEN 1 ELSE IF word = "Username" THEN 3 ELSE 2

(* C8: in the why string every title line precedes every body line, and    *)
(* every body line precedes every username line, whatever the order in     *)
(* which the rules produced them.                                          *)
C8_WhyBlockOrder ==
    pc = "done" =>
        \A i, j \in 1..Len(verdict.why) :
            (i < j /\ verdict.why[i] \in BlockWords /\ verdict.why[j] \in BlockWords)
                => BlockRank(verdict.why[i]) <= BlockRank(verdict.why[j])

\* the first rule hit the username only, the second one the title and the body
C8_Witness ==
    /\ pc = "done" /\ idx = 2
    /\ Len(why.username) = 1 /\ Len(why.title) >= 1 /\ Len(why.body) >= 1
    /\ result[1] = str_replace(reason_x, name_username)
    /\ verdict.why[1] = "Title"
    /\ verdict.why[Len(verdict.why) - 2] = "Username"

\* the detector of rule' has reported a hit on a field enabled by the rule
RecordedHit(f) == pc' = "iterated" /\ rule'[f] /\ HitReported(f)

BodyWord(p) == IF p.is_answer THEN name_answer ELSE name_body

ReasonWord(f, p) == IF f = "body" THEN BodyWord(p) ELSE FieldWord(f)

C10_WholePostOnce ==
    [][RuleStep /\ rule'.kind = "whole_post" /\ GatePasses(rule', post) =>
        /\ Len(calls') = 1 /\ calls'[1].fn = "method" /\ calls'[1].whole
        /\ (pc' = "iterated" /\ \E f \in FieldNames : HitReported(f)) =>
            /\ Len(AddedReasons) >= 1
            /\ \E f \in FieldNames :
                /\ HitReported(f)
                /\ AddedReasons[1] = str_replace(rule'.reason, FieldWord(f))
                /\ Len(AddedLines(f)) = 1]_vars

\* the shape of the answer-similarity rule: no flag set, a body hit
C10_Witness ==
    /\ pc = "iterated" /\ rule.kind = "whole_post"
    /\ ~rule.title /\ ~rule.body /\ ~rule.username
    /\ rule.det = [title |-> "miss", username |-> "miss", body |-> "hit"]
    /\ Len(calls) = 1 /\ calls[1].whole
    /\ result = <<str_replace(rule.reason, name_body)>>
    /\ Len(why.body) = 1

----------------------------------------------------------------------------
(* The body normalisation of test_post, lines 1103 and 1113-1124, on its   *)
(* own: the body of a post and the rule at hand are the inputs             *)

MaxBodyLen == 5        \* number of tokens of a body

NormTokens == {"x", "shy", "<pre>", "</pre>", "<code>", "</code>"}

RECURSIVE TextsOver(_, _)
\* the token sequences of at most n tokens
TextsOver(tokens, n) ==
    IF n = 0 THEN {<<>>}
    ELSE LET shorter == TextsOver(tokens, n - 1)
         IN  shorter \cup {<<c>> \o s : c \in tokens, s \in {x \in shorter : Len(x) = n - 1}}

\* a question of siteA with the given body
PostWithBody(b) ==
    [title |-> <<"t">>, body |-> b, user_name |-> <<"u">>, post_site |-> "siteA",
     owner_rep |-> 1, post_score |-> 0, is_answer |-> FALSE, body_is_summary |-> FALSE]

\* rules with and without 'stripcodeblocks', the phone number rule among them
NormRules ==
    {[OnlyRule EXCEPT !.kind = "method", !.stripcodeblocks = s, !.reason = rs] :
        s \in BOOLEAN, rs \in {reason_x, reason_phone_rule}}

InitBody ==
    /\ norm \in [post : {PostWithBody(b) : b \in TextsOver(NormTokens, MaxBodyLen)},
                 rule : NormRules, body_to_check : {<<>>}, pc : {"bind"}]
    /\ post = Idle /\ idx = 0 /\ rule = NoRule /\ result = <<>> /\ why = Idle
    /\ calls = <<>> /\ pc = Idle /\ verdict = Idle
    /\ rules = Idle /\ evals = Idle
    /\ gd = Idle /\ psc = Idle /\ lk = Idle /\ dt = Idle
    /\ FramesIdle

\* line 1103: body_to_check = post.body
BindBody ==
    /\ norm.pc = "bind"
    /\ norm' = [norm EXCEPT !.body_to_check = norm.post.body, !.pc = "normalize"]
    /\ UNCHANGED <<engine_vars, rules, evals, gd, psc, lk, dt, frame_vars>>

\* lines 1113-1124: the local name is rebound to the normalised text
NormalizeBody ==
    /\ norm.pc = "normalize"
    /\ norm' = [norm EXCEPT !.body_to_check = body_to_check(norm.rule, norm.post),
                            !.pc = "normalized"]
    /\ UNCHANGED <<engine_vars, rules, evals, gd, psc, lk, dt, frame_vars>>

NextBody == BindBody \/ NormalizeBody

SpecBody == InitBody /\ [][NextBody]_vars

RECURSIVE span_positions(_, _, _, _)
\* the positions of the text, counted from offset + 1, that lie inside a
\* complete span (tags included): the matches of open .*? close
span_positions(text, open, close, offset) ==
    IF text = <<>> THEN {}
    ELSE IF Head(text) = open /\ \E k \in 2..Len(text) : text[k] = close
    THEN LET k == CHOOSE k \in 2..Len(text) :
                      text[k] = close /\ \A j \in 2..(k - 1) : text[j] # close
         IN  {offset + j : j \in 1..k}
             \cup span_positions(SubSeq(text, k + 1, Len(text)), open, close, offset + k)
    ELSE span_positions(Tail(text), open, close, offset + 1)

\* the body without its soft hyphens and zero-width characters
Visible(b) == sub_tokens(b, {"shy"}, <<>>)

\* the positions of the visible body inside a complete <pre> or <code> span
CodePositions(b) ==
    span_positions(Visible(b), "<pre>", "</pre>", 0)
    \cup span_positions(Visible(b), "<code>", "</code>", 0)

\* the number of text tokens of a text at the given positions
CountText(text, positions) == Cardinality({k \in positions : text[k] = "x"})

(***************************************************************************)
(* C17.  For a rule with stripcodeblocks set the text handed to the        *)
(* detector contains no soft hyphen and none of the text that stood inside *)
(* a complete <pre> or <code> span of the body: it holds no more text      *)
(* tokens than the body has outside its code spans.  For a rule with the   *)
(* flag unset the text is the body without its soft hyphens.               *)
(***************************************************************************)
C17_CodeContentHidden ==
    norm.pc = "normalized" =>
        LET b == Visible(norm.post.body)
            out == norm.body_to_check
        IN  /\ \A k \in 1..Len(out) : out[k] # "shy"
            /\ norm.rule.stripcodeblocks =>
                   CountText(out, 1..Len(out))
                       <= CountText(b, (1..Len(b)) \ CodePositions(norm.post.body))
            /\ ~norm.rule.stripcodeblocks => out = b

----------------------------------------------------------------------------
(***************************************************************************)
(* C18.  The patterns are compiled when the rule set is loaded: a call of  *)
(* test_post compiles no pattern.  (Under Spec, the call of test_post for  *)
(* one post; calls lists what the iteration at hand invoked.)              *)
(***************************************************************************)
C18_NoCompileInTestPost ==
    \A k \in 1..Len(calls) : calls[k].fn # "compile"

----------------------------------------------------------------------------
(* Calls of test_post side by side: each call is a frame with its own      *)
(* post, position in FindSpam.rules and locals; the class attribute        *)
(* FindSpam.rules is what the calls have in common                         *)

\* two calls: for two posts, or twice for the same post
Evals == {1, 2}

\* a pattern rule for siteA, a procedural rule with 'stripcodeblocks', a rule
\* without placeholder, a rule whose detector raises on the body, and a
\* pattern rule for every site but siteA
PairRuleSet ==
    {OnlyRule,
     [OnlyRule EXCEPT !.kind = "method", !.stripcodeblocks = TRUE, !.title = FALSE],
     [OnlyRule EXCEPT !.kind = "method", !.reason = reason_m, !.answers = "False"],
     [OnlyRule EXCEPT !.det = [title |-> "miss", username |-> "miss", body |-> "raise"],
                      !.questions = "False"],
     BaseRule}

\* a question and an answer of siteA, a question of siteB
PairPosts ==
    {p \in Posts : /\ p.owner_rep = 1 /\ p.post_score = 0 /\ ~p.body_is_summary
                   /\ p.post_site = "siteB" => ~p.is_answer}

\* lines 1099-1101: the frame of a call that has just begun
new_frame(p) ==
    [post |-> p, idx |-> 0, result |-> <<>>,
     why |-> [title |-> <<>>, body |-> <<>>, username |-> <<>>],
     body_to_check |-> <<>>, pc |-> "loop",
     verdict |-> [reasons |-> <<>>, why |-> <<>>]]

\* the normalised text stored into the post itself
rebind_body_in_post(f, text) ==
    [f EXCEPT !.body_to_check = text, !.post.body = text]

\* lines 1103-1124: body_to_check = ... rebinds the local name; a Python
\* string is immutable, post.body is not assigned
rebind_body(f, text) == [f EXCEPT !.body_to_check = text]

\* lines 1103-1176: one iteration of the loop, for rule r
iterate(f, r) ==
    LET f1 == rebind_body(f, body_to_check(r, f.post))
        p == f1.post
    IN  IF ~Gate(r, p) THEN [f1 EXCEPT !.idx = @ + 1]
        ELSE IF Raises(r, p) THEN [f1 EXCEPT !.idx = @ + 1, !.pc = "raised"]
        ELSE [f1 EXCEPT !.idx = @ + 1,
                        !.result = @ \o result_add(r, p),
                        !.why = [title |-> @.title \o why_title_add(r, p),
                                 body |-> @.body \o why_body_add(r, p),
                                 username |-> @.username \o why_username_add(r, p)]]

\* lines 1177-1181
return_frame(f) ==
    [f EXCEPT !.verdict = [reasons |-> sorted_list(seq_to_set(f.result)),
                           why |-> strip(join_lines(chain_why(f.why)))],
              !.pc = "done"]

\* result and why kept in one place for all the calls
set_frame_shared(fs, e, f) ==
    [x \in DOMAIN fs |->
        IF x = e THEN f ELSE [fs[x] EXCEPT !.result = f.result, !.why = f.why]]

\* result and why are locals, created by each call at lines 1100-1101: a
\* step of call e changes the frame of e only
set_frame(fs, e, f) == [fs EXCEPT ![e] = f]

InitPair ==
    /\ rules \in [1..MaxRules -> PairRuleSet]
    /\ evals \in [Evals -> {new_frame(p) : p \in PairPosts}]
    /\ post = Idle /\ idx = 0 /\ rule = NoRule /\ result = <<>> /\ why = Idle
    /\ calls = <<>> /\ pc = Idle /\ verdict = Idle
    /\ gd = Idle /\ psc = Idle /\ norm = Idle /\ lk = Idle /\ dt = Idle
    /\ FramesIdle

\* call e makes one iteration of its loop
PairIterate(e) ==
    /\ evals[e].pc = "loop" /\ evals[e].idx < Len(rules)
    /\ evals' = set_frame(evals, e, iterate(evals[e], rules[evals[e].idx + 1]))
    /\ UNCHANGED <<engine_vars, rules, gd, psc, norm, lk, dt, frame_vars>>

\* call e returns
PairReturn(e) ==
    /\ evals[e].pc = "loop" /\ evals[e].idx = Len(rules)
    /\ evals' = set_frame(evals, e, return_frame(evals[e]))
    /\ UNCHANGED <<engine_vars, rules, gd, psc, norm, lk, dt, frame_vars>>

NextPair ==
    \/ \E e \in Evals : PairIterate(e)
    \/ \E e \in Evals : PairReturn(e)

SpecPair == InitPair /\ [][NextPair]_vars

RECURSIVE run_alone(_, _)
\* the frame in which a call ends when no other call runs
run_alone(f, rs) ==
    IF f.pc # "loop" THEN f
    ELSE IF f.idx < Len(rs) THEN run_alone(iterate(f, rs[f.idx + 1]), rs)
    ELSE return_frame(f)

\* how a call ended, and the verdict it returned
Ending(f) == [pc |-> f.pc, verdict |-> f.verdict]

Ended(f) == f.pc \in {"done", "raised"}

(***************************************************************************)
(* C11.  However the steps of two calls of test_post interleave, each call *)
(* ends as it would have ended alone, with the verdict (reasons and why)   *)
(* that test_post computes from its post and FindSpam.rules; two calls for *)
(* the same post end alike.                                                *)
(***************************************************************************)
C11_VerdictIsFunctionOfPost ==
    /\ \A e \in Evals :
          Ended(evals[e]) =>
              Ending(evals[e]) = Ending(run_alone(new_frame(evals[e].post), rules))
    /\ \A e1, e2 \in Evals :
          (Ended(evals[e1]) /\ Ended(evals[e2]) /\ evals[e1].post = evals[e2].post)
              => Ending(evals[e1]) = Ending(evals[e2])

\* two calls for different posts have returned different, non-empty verdicts
C11_Witness ==
    /\ evals[1].pc = "done" /\ evals[2].pc = "done"
    /\ evals[1].post # evals[2].post
    /\ evals[1].verdict.reasons # <<>> /\ evals[2].verdict.reasons # <<>>
    /\ evals[1].verdict # evals[2].verdict

(***************************************************************************)
(* C16.  No step of test_post changes the post it evaluates or             *)
(* FindSpam.rules; the text normalised in an iteration is a local of the   *)
(* call, computed anew from the body of the post for each rule.            *)
(***************************************************************************)
C16_InputNotMutated ==
    [][/\ rules' = rules
       /\ \A e \in Evals :
             /\ evals'[e].post = evals[e].post
             /\ evals'[e].idx = evals[e].idx + 1 =>
                    evals'[e].body_to_check
                        = body_to_check(rules[evals'[e].idx], evals[e].post)]_vars

\* after a rule with 'stripcodeblocks', the iteration of a rule without it
\* has seen the code of the body
C16_Witness ==
    \E e \in Evals :
        /\ evals[e].idx = 2
        /\ rules[1].stripcodeblocks /\ ~rules[2].stripcodeblocks
        /\ "c" \in seq_to_set(evals[e].body_to_check)
        /\ evals[e].body_to_check # evals[e].post.body
        /\ "c" \notin seq_to_set(body_to_check(rules[1], evals[e].post))

----------------------------------------------------------------------------
(* get_domain, lines 478-511.  A string is the sequence of the segments    *)
(* that its split on "." yields: "a.b" is <<"a", "b">> and "" is <<"">>.    *)
(* What tld.get_tld answers is not in the file: each attempt succeeds,     *)
(* raises TldDomainNotFound or raises another error of the library.        *)

MaxSegments == 4       \* number of "."-separated segments of a path

Segments == {"", "a", "b"}

RECURSIVE PathsOf(_)
\* the strings of exactly n segments
PathsOf(n) ==
    IF n = 1 THEN {<<c>> : c \in Segments}
    ELSE {<<c>> \o s : c \in Segments, s \in PathsOf(n - 1)}

Paths == UNION {PathsOf(n) : n \in 1..MaxSegments}

EmptyString == <<"">>

\* the non-empty strings handed to get_domain: with a scheme and a host
\* ("http://host" followed by the path, which may be empty), or the
\* dotted string alone, which urlparse takes for a path as a whole
Urls ==
    {u \in [scheme : BOOLEAN, path : Paths] : u.scheme \/ u.path # EmptyString}

\* urlparse(s).path
urlparse_path(s) == s.path

ParserOutcomes == {"ok", "TldDomainNotFound", "OtherError"}

\* extract.domain and str(extract) of a successful parse
extract_domain(full) == IF full THEN <<"domain", "tld">> ELSE <<"domain">>

\* the fallback as "the second-to-last segment, or all from the second on"
third_tier_second_to_last(path, full) ==
    IF full THEN Tail(path)
    ELSE IF Len(path) >= 2 THEN <<path[Len(path) - 1]>> ELSE <<path[1]>>

\* lines 500-510
third_tier(path, full) ==
    IF Len(path) >= 3
    THEN IF full THEN Tail(path) ELSE <<path[2]>>
    ELSE IF full THEN path ELSE <<path[1]>>

InitDomain ==
    /\ gd \in [s : Urls, full : BOOLEAN, pc : {"first"}, tier : {0},
               domain : {"unbound"}]
    /\ post = Idle /\ idx = 0 /\ rule = NoRule /\ result = <<>> /\ why = Idle
    /\ calls = <<>> /\ pc = Idle /\ verdict = Idle
    /\ rules = Idle /\ evals = Idle
    /\ psc = Idle /\ norm = Idle /\ lk = Idle /\ dt = Idle
    /\ FramesIdle

\* lines 482-487: the first parse
FirstAttempt(o) ==
    /\ gd.pc = "first"
    /\ gd' = IF o = "ok"
             THEN [gd EXCEPT !.domain = extract_domain(gd.full), !.tier = 1,
                             !.pc = "returned"]
             ELSE IF o = "TldDomainNotFound" THEN [gd EXCEPT !.pc = "except"]
             ELSE [gd EXCEPT !.pc = "raised"]
    /\ UNCHANGED <<engine_vars, rules, evals, psc, norm, lk, dt, frame_vars>>

\* lines 489-491: RE_COMPILE.match(str(e)).group(1); match returns None,
\* and .group raises, when the message is not of the form of EXCEPTION_RE
ExtractInvalidTld(matches) ==
    /\ gd.pc = "except"
    /\ gd' = [gd EXCEPT !.pc = IF matches THEN "second" ELSE "raised"]
    /\ UNCHANGED <<engine_vars, rules, evals, psc, norm, lk, dt, frame_vars>>

\* lines 492-497: the parse of s1
SecondAttempt(o) ==
    /\ gd.pc = "second"
    /\ gd' = IF o = "ok"
             THEN [gd EXCEPT !.domain = extract_domain(gd.full), !.tier = 2,
                             !.pc = "returned"]
             ELSE IF o = "TldDomainNotFound" THEN [gd EXCEPT !.pc = "third"]
             ELSE [gd EXCEPT !.pc = "raised"]
    /\ UNCHANGED <<engine_vars, rules, evals, psc, norm, lk, dt, frame_vars>>

\* lines 498-511
ThirdTier ==
    /\ gd.pc = "third"
    /\ gd' = [gd EXCEPT !.domain = third_tier(urlparse_path(gd.s), gd.full),
                        !.tier = 3, !.pc = "returned"]
    /\ UNCHANGED <<engine_vars, rules, evals, psc, norm, lk, dt, frame_vars>>

NextDomain ==
    \/ \E o \in ParserOutcomes : FirstAttempt(o)
    \/ \E m \in BOOLEAN : ExtractInvalidTld(m)
    \/ \E o \in ParserOutcomes : SecondAttempt(o)
    \/ ThirdTier

SpecDomain == InitDomain /\ [][NextDomain]_vars

(***************************************************************************)
(* C12.  get_domain never fails: whatever the parser answers on the first  *)
(* and on the second attempt, the call raises no error, and the string it  *)
(* returns is not empty.                                                   *)
(***************************************************************************)
C12_NeverFails ==
    /\ gd.pc # "raised"
    /\ gd.pc = "returned" => gd.domain # EmptyString

\* the third tier has returned
ThirdTierReturned == gd.pc = "returned" /\ gd.tier = 3

(***************************************************************************)
(* C13 as stated.  When both parses fail for an unrecognized top-level     *)
(* domain, get_domain returns the second-to-last segment of the path (full *)
(* False), or all the segments from the second one on (full True),         *)
(* whatever the number of segments.                                        *)
(***************************************************************************)
C13_SecondToLastSegment ==
    ThirdTierReturned =>
        LET path == urlparse_path(gd.s)
        IN  IF gd.full THEN gd.domain = Tail(path)
            ELSE Len(path) >= 2 /\ gd.domain = <<path[Len(path) - 1]>>

(***************************************************************************)
(* C13, amended.  When both parses fail for an unrecognized top-level      *)
(* domain: for a path of three or more segments get_domain returns the     *)
(* second segment (full False) or all the segments from the second one on  *)
(* (full True); for a path of fewer segments it returns the first segment  *)
(* (full False) or the whole path (full True).                             *)
(***************************************************************************)
C13_ThirdTierHeuristic ==
    ThirdTierReturned =>
        LET path == urlparse_path(gd.s)
            n == Len(path)
        IN  /\ (n >= 3 /\ ~gd.full) => gd.domain = <<path[2]>>
            /\ (n >= 3 /\ gd.full) => gd.domain = SubSeq(path, 2, n)
            /\ (n < 3 /\ ~gd.full) => gd.domain = <<path[1]>>
            /\ (n < 3 /\ gd.full) => gd.domain = path

\* a path of four segments, full False: the second segment is returned and
\* it is not the second-to-last one
C13_Witness ==
    /\ ThirdTierReturned /\ ~gd.full
    /\ Len(urlparse_path(gd.s)) = 4
    /\ urlparse_path(gd.s)[2] # urlparse_path(gd.s)[3]
    /\ gd.domain = <<urlparse_path(gd.s)[2]>>

----------------------------------------------------------------------------
(* perform_similarity_checks, similar_ratio and username_similar_website,  *)
(* lines 395-401 and 443-474.  Here a string is the sequence of its        *)
(* characters; a ratio is a fraction <<numerator, denominator>>.           *)

MaxLinks == 2          \* number of links that post_links finds in the text

SIMILAR_THRESHOLD == <<95, 100>>

\* m >= n, m > n and m = n for fractions with positive denominators
rat_ge(m, n) == m[1] * n[2] >= n[1] * m[2]

rat_eq(m, n) == m[1] * n[2] = n[1] * m[2]

\* max(t1, t2, t3, t4)
max4(t) == t[CHOOSE k \in 1..4 : \A j \in 1..4 : rat_ge(t[k], t[j])]

\* str.lower()
lower(s) ==
    [k \in 1..Len(s) |-> IF s[k] = "J" THEN "j" ELSE IF s[k] = "S" THEN "s" ELSE s[k]]

\* s.replace(c, "")
remove(s, c) == SelectSeq(s, LAMBDA x : x # c)

RECURSIVE MatchLen(_, _, _, _)
\* the length of the longest common run of a from i and b from j
MatchLen(a, i, b, j) ==
    IF i > Len(a) \/ j > Len(b) THEN 0
    ELSE IF a[i] # b[j] THEN 0
    ELSE 1 + MatchLen(a, i + 1, b, j + 1)

\* SequenceMatcher.find_longest_match: the longest common block <<i, j, k>>,
\* the one that starts earliest in a and, among those, earliest in b
find_longest_match(a, b) ==
    LET starts == (1..Len(a)) \X (1..Len(b))
        k == CHOOSE n \in 0..Len(a) :
                 /\ \E p \in starts : MatchLen(a, p[1], b, p[2]) = n
                 /\ \A p \in starts : MatchLen(a, p[1], b, p[2]) <= n
        longest == {p \in starts : MatchLen(a, p[1], b, p[2]) = k}
        at == CHOOSE p \in longest :
                  \A q \in longest : p[1] < q[1] \/ (p[1] = q[1] /\ p[2] <= q[2])
    IN  <<at[1], at[2], k>>

RECURSIVE matching_count(_, _)
\* the total size of SequenceMatcher.get_matching_blocks: the longest block,
\* and recursively the blocks to its left and to its right
matching_count(a, b) ==
    IF a = <<>> \/ b = <<>> THEN 0
    ELSE LET blk == find_longest_match(a, b)
             i == blk[1]
             j == blk[2]
             k == blk[3]
         IN  IF k = 0 THEN 0
             ELSE k + matching_count(SubSeq(a, 1, i - 1), SubSeq(b, 1, j - 1))
                    + matching_count(SubSeq(a, i + k, Len(a)), SubSeq(b, j + k, Len(b)))

\* SequenceMatcher(None, a, b).ratio(): 2.0 * matches / length, 1.0 if both
\* are empty
ratio(a, b) ==
    IF Len(a) + Len(b) = 0 THEN <<1, 1>>
    ELSE <<2 * matching_count(a, b), Len(a) + Len(b)>>

\* lines 473-474
similar_ratio(a, b) == ratio(lower(a), lower(b))

\* lines 458-465: t1, t2, t3, t4 for one link
variants(domain, name) ==
    <<similar_ratio(domain, name),
      similar_ratio(domain, remove(name, " ")),
      similar_ratio(remove(domain, "-"), remove(name, "-")),
      similar_ratio(remove(remove(domain, "-"), " "), remove(remove(name, "-"), " "))>>

\* user names, and the domains that get_domain returns for the links of a
\* text ("" is what it returns for a URL without a path whose top-level
\* domain is unknown)
SimNames == {<<"J", " ", "s">>, <<"j", "s">>, <<"j", "-", "s">>, <<"s">>, <<"s", "j">>}

SimDomains == {<<"j", "s">>, <<"j", "-", "s">>, <<"s", "j">>, <<"s">>, <<>>}

\* post_links(post): the set of the links 1..n of the text, each with the
\* domain that get_domain returns for it
LinkSets == UNION {[1..n -> SimDomains] : n \in 0..MaxLinks}

\* the loop that goes on to the next link whatever the ratios
stop_scan_never(t) == FALSE

\* line 467: if max(t1, t2, t3, t4) >= SIMILAR_THRESHOLD: break
stop_scan(t) == rat_ge(max4(t), SIMILAR_THRESHOLD)

InitSimilarity ==
    /\ psc \in [links : LinkSets, name : SimNames, todo : {{}},
                t : {<<<<0, 1>>, <<0, 1>>, <<0, 1>>, <<0, 1>>>>},
                ret : {<<0, 1>>}, hit : {FALSE}, pc : {"call"}]
    /\ post = Idle /\ idx = 0 /\ rule = NoRule /\ result = <<>> /\ why = Idle
    /\ calls = <<>> /\ pc = Idle /\ verdict = Idle
    /\ rules = Idle /\ evals = Idle
    /\ gd = Idle /\ norm = Idle /\ lk = Idle /\ dt = Idle
    /\ FramesIdle

\* lines 450-455: t1 = t2 = t3 = t4 = 0, the iteration over the set begins
BeginScan ==
    /\ psc.pc = "call"
    /\ psc' = [psc EXCEPT !.todo = DOMAIN psc.links, !.pc = "loop"]
    /\ UNCHANGED <<engine_vars, rules, evals, gd, norm, lk, dt, frame_vars>>

\* lines 455-468: the iteration for link l, whichever link the set yields
ScanLink(l) ==
    /\ psc.pc = "loop" /\ l \in psc.todo
    /\ LET t == variants(psc.links[l], psc.name)
       IN  psc' = [psc EXCEPT !.t = t, !.todo = @ \ {l},
                              !.pc = IF stop_scan(t) THEN "break" ELSE "loop"]
    /\ UNCHANGED <<engine_vars, rules, evals, gd, norm, lk, dt, frame_vars>>

\* line 470, after the break or after the last link
ReturnMax ==
    /\ psc.pc = "break" \/ (psc.pc = "loop" /\ psc.todo = {})
    /\ psc' = [psc EXCEPT !.ret = max4(psc.t), !.pc = "returned"]
    /\ UNCHANGED <<engine_vars, rules, evals, gd, norm, lk, dt, frame_vars>>

\* lines 397-401, the caller
username_similar_website ==
    /\ psc.pc = "returned"
    /\ psc' = [psc EXCEPT !.hit = rat_ge(psc.ret, SIMILAR_THRESHOLD), !.pc = "done"]
    /\ UNCHANGED <<engine_vars, rules, evals, gd, norm, lk, dt, frame_vars>>

NextSimilarity ==
    \/ BeginScan
    \/ \E l \in 1..MaxLinks : ScanLink(l)
    \/ ReturnMax
    \/ username_similar_website

SpecSimilarity == InitSimilarity /\ [][NextSimilarity]_vars

\* the greatest ratio of link l, over the four variants
LinkRatio(l) == max4(variants(psc.links[l], psc.name))

LinkHits(l) == rat_ge(LinkRatio(l), SIMILAR_THRESHOLD)

SimReturned == psc.pc \in {"returned", "done"}

(***************************************************************************)
(* C14.  perform_similarity_checks returns the maximum of similar_ratio    *)
(* over all the links of the text and the four variants (0 without links), *)
(* in whatever order the links are iterated.                               *)
(***************************************************************************)
C14_ReturnsMaximum ==
    SimReturned =>
        /\ \A l \in DOMAIN psc.links : rat_ge(psc.ret, LinkRatio(l))
        /\ DOMAIN psc.links = {} => rat_eq(psc.ret, <<0, 1>>)

(***************************************************************************)
(* C15.  perform_similarity_checks returns at least 0.95, and              *)
(* username_similar_website reports a hit, if and only if some link of the *)
(* text has a variant with ratio at least 0.95, in whatever order the      *)
(* links are iterated; a link whose domain is the user name without its    *)
(* spaces, case ignored, always gives a hit; a text without links gives 0  *)
(* and no hit.                                                             *)
(***************************************************************************)
C15_HitIffSomeLinkSimilar ==
    /\ SimReturned =>
          /\ rat_ge(psc.ret, SIMILAR_THRESHOLD) <=> \E l \in DOMAIN psc.links : LinkHits(l)
          /\ (\E l \in DOMAIN psc.links :
                  lower(psc.links[l]) = lower(remove(psc.name, " ")))
                 => rat_ge(psc.ret, SIMILAR_THRESHOLD)
          /\ DOMAIN psc.links = {} => rat_eq(psc.ret, <<0, 1>>)
    /\ psc.pc = "done" => (psc.hit <=> \E l \in DOMAIN psc.links : LinkHits(l))

\* user name "J s", a link to js among two links: the scan has stopped at
\* it with the other link still to come, and the hit is reported
C15_Witness ==
    /\ psc.pc = "done" /\ psc.hit
    /\ psc.name = <<"J", " ", "s">>
    /\ psc.todo # {}
    /\ \E l \in DOMAIN psc.links : psc.links[l] = <<"j", "s">> /\ l \notin psc.todo
    /\ \E l \in psc.todo : ~LinkHits(l)

----------------------------------------------------------------------------
(* The detectors with external lookups: bad_ns_for_url_domain, lines       *)
(* 339-361, and has_phone_number, lines 130-153.  What the resolver and    *)
(* the phone number library answer is an input of the call.                *)

MaxLookups == 2        \* domains of a text, candidate numbers of a text

\* per domain: tld.get_tld(..., fail_silently=True) finds no TLD; the
\* query raises a DNSException whose text begins with 'None of DNS query
\* names exist:'; it raises another DNSException; it answers with name
\* servers none of which, or one of which, is of namecheaphosting.com
NsAnswers == {"no_tld", "NXDOMAIN", "DNSException", "ns_clean", "ns_suspicious"}

\* the set of line 340, the domains 1..n of the links of the text
NsDomainSets == UNION {[1..n -> NsAnswers] : n \in 0..MaxLookups}

test_formats == <<"IN", "US", "NG", "None">>

\* per candidate number, what phonenumbers.parse and the validity tests do
\* for each of the four regions
PhoneRows ==
    {<<"NumberParseException", "NumberParseException", "NumberParseException",
       "NumberParseException">>,
     <<"NumberParseException", "valid", "invalid", "invalid">>,
     <<"invalid", "invalid", "invalid", "invalid">>,
     <<"invalid", "NumberParseException", "invalid", "NumberParseException">>,
     <<"NumberParseException", "NumberParseException", "NumberParseException", "valid">>}

\* a candidate: whether it begins like 2147483647 or 192168 (line 142), and
\* the answers for it
PhoneCandidates == [special : BOOLEAN, answers : PhoneRows]

PhoneLists == UNION {[1..n -> PhoneCandidates] : n \in 0..MaxLookups}

\* the DNS error let through to the caller
on_dns_exception_raise(f, d) == [f EXCEPT !.queried = @ \cup {d}, !.pc = "raised"]

\* lines 347-354: except dns.exception.DNSException: log, continue
on_dns_exception(f, d) == [f EXCEPT !.queried = @ \cup {d}, !.todo = @ \ {d}]

\* the next region of the candidate, or the next candidate
next_try(f) ==
    IF f.j < Len(test_formats) THEN [f EXCEPT !.j = @ + 1]
    ELSE [f EXCEPT !.i = @ + 1, !.j = 0]

InitLookup ==
    /\ lk \in [fn : {"bad_ns_for_url_domain"}, domains : NsDomainSets, todo : {{}},
               queried : {{}}, pc : {"call"}, ret : {FALSE}]
              \cup [fn : {"has_phone_number"}, keyword : BOOLEAN, matched : PhoneLists,
                    i : {1}, j : {0}, tried : {{}}, pc : {"call"}, ret : {FALSE}]
    /\ post = Idle /\ idx = 0 /\ rule = NoRule /\ result = <<>> /\ why = Idle
    /\ calls = <<>> /\ pc = Idle /\ verdict = Idle
    /\ rules = Idle /\ evals = Idle
    /\ gd = Idle /\ psc = Idle /\ norm = Idle /\ dt = Idle
    /\ FramesIdle

IsNs == lk.fn = "bad_ns_for_url_domain"

IsPhone == lk.fn = "has_phone_number"

\* line 340: the iteration over the set of domains begins
NsBegin ==
    /\ IsNs /\ lk.pc = "call"
    /\ lk' = [lk EXCEPT !.todo = DOMAIN lk.domains, !.pc = "loop"]
    /\ UNCHANGED <<engine_vars, rules, evals, gd, psc, norm, dt, frame_vars>>

\* lines 341-343: no valid TLD, the domain is skipped without a query
NsSkipNoTld(d) ==
    /\ IsNs /\ lk.pc = "loop" /\ d \in lk.todo
    /\ lk.domains[d] = "no_tld"
    /\ lk' = [lk EXCEPT !.todo = @ \ {d}]
    /\ UNCHANGED <<engine_vars, rules, evals, gd, psc, norm, dt, frame_vars>>

\* lines 344-354: the query raises a DNSException
NsQueryFails(d) ==
    /\ IsNs /\ lk.pc = "loop" /\ d \in lk.todo
    /\ lk.domains[d] \in {"NXDOMAIN", "DNSException"}
    /\ lk' = on_dns_exception(lk, d)
    /\ UNCHANGED <<engine_vars, rules, evals, gd, psc, norm, dt, frame_vars>>

\* lines 344-360: the query answers
NsQueryAnswers(d) ==
    /\ IsNs /\ lk.pc = "loop" /\ d \in lk.todo
    /\ lk.domains[d] \in {"ns_clean", "ns_suspicious"}
    /\ lk' = IF lk.domains[d] = "ns_suspicious"
             THEN [lk EXCEPT !.queried = @ \cup {d}, !.ret = TRUE, !.pc = "returned"]
             ELSE [lk EXCEPT !.queried = @ \cup {d}, !.todo = @ \ {d}]
    /\ UNCHANGED <<engine_vars, rules, evals, gd, psc, norm, dt, frame_vars>>

\* line 361
NsReturnFalse ==
    /\ IsNs /\ lk.pc = "loop" /\ lk.todo = {}
    /\ lk' = [lk EXCEPT !.ret = FALSE, !.pc = "returned"]
    /\ UNCHANGED <<engine_vars, rules, evals, gd, psc, norm, dt, frame_vars>>

\* lines 131-140: a keyword of line 131 ends the call, else the loop begins
PhoneBegin ==
    /\ IsPhone /\ lk.pc = "call"
    /\ lk' = IF lk.keyword THEN [lk EXCEPT !.ret = FALSE, !.pc = "returned"]
             ELSE [lk EXCEPT !.pc = "loop"]
    /\ UNCHANGED <<engine_vars, rules, evals, gd, psc, norm, dt, frame_vars>>

\* lines 141-143: the next candidate
PhoneCandidate ==
    /\ IsPhone /\ lk.pc = "loop" /\ lk.i <= Len(lk.matched) /\ lk.j = 0
    /\ lk' = IF lk.matched[lk.i].special
             THEN [lk EXCEPT !.ret = FALSE, !.pc = "returned"]
             ELSE [lk EXCEPT !.j = 1]
    /\ UNCHANGED <<engine_vars, rules, evals, gd, psc, norm, dt, frame_vars>>

\* lines 144-152: the candidate is parsed for the next region
PhoneTry ==
    /\ IsPhone /\ lk.pc = "loop" /\ lk.i <= Len(lk.matched) /\ lk.j >= 1
    /\ LET f == [lk EXCEPT !.tried = @ \cup {<<lk.i, lk.j>>}]
       IN  lk' = IF lk.matched[lk.i].answers[lk.j] = "valid"
                 THEN [f EXCEPT !.ret = TRUE, !.pc = "returned"]
                 ELSE next_try(f)
    /\ UNCHANGED <<engine_vars, rules, evals, gd, psc, norm, dt, frame_vars>>

\* line 153
PhoneReturnFalse ==
    /\ IsPhone /\ lk.pc = "loop" /\ lk.i > Len(lk.matched)
    /\ lk' = [lk EXCEPT !.ret = FALSE, !.pc = "returned"]
    /\ UNCHANGED <<engine_vars, rules, evals, gd, psc, norm, dt, frame_vars>>

NextLookup ==
    \/ NsBegin
    \/ \E d \in 1..MaxLookups : NsSkipNoTld(d)
    \/ \E d \in 1..MaxLookups : NsQueryFails(d)
    \/ \E d \in 1..MaxLookups : NsQueryAnswers(d)
    \/ NsReturnFalse
    \/ PhoneBegin
    \/ PhoneCandidate
    \/ PhoneTry
    \/ PhoneReturnFalse

SpecLookup == InitLookup /\ [][NextLookup]_vars

\* candidate i is reached: no keyword, no special candidate up to it
CandidateReached(i) ==
    ~lk.keyword /\ \A k \in 1..i : ~lk.matched[k].special

(***************************************************************************)
(* C19.  The external-lookup detectors fail open.  bad_ns_for_url_domain   *)
(* never raises on a DNS error: it reports a hit exactly when some domain  *)
(* has a suspicious name server, and when it reports none every domain     *)
(* with a valid TLD has been queried.  has_phone_number never raises on a  *)
(* parse failure: it reports a hit exactly when a candidate that is        *)
(* reached is valid for some region, and when it reports none although     *)
(* every candidate is reached, every candidate has been parsed for every   *)
(* region.                                                                 *)
(***************************************************************************)
C19_LookupsFailOpen ==
    /\ lk.pc # "raised"
    /\ (IsNs /\ lk.pc = "returned") =>
          /\ lk.ret <=> \E d \in DOMAIN lk.domains : lk.domains[d] = "ns_suspicious"
          /\ ~lk.ret => \A d \in DOMAIN lk.domains :
                            lk.domains[d] # "no_tld" => d \in lk.queried
    /\ (IsPhone /\ lk.pc = "returned") =>
          /\ lk.ret <=> \E i \in DOMAIN lk.matched :
                            /\ CandidateReached(i)
                            /\ \E j \in 1..Len(test_formats) :
                                   lk.matched[i].answers[j] = "valid"
          /\ (~lk.ret /\ CandidateReached(Len(lk.matched))) =>
                 lk.tried = (DOMAIN lk.matched) \X (1..Len(test_formats))

\* a hit reported for a domain that was queried after the query for another
\* domain had failed
C19_Witness ==
    /\ IsNs /\ lk.pc = "returned" /\ lk.ret
    /\ \E d \in lk.queried : lk.domains[d] = "DNSException"

----------------------------------------------------------------------------
(* The procedural detectors that relate a count to the length of the text: *)
(* lines 53-126, 365-383, 405-421 and 535-549.  A text is a sequence of    *)
(* tokens: "a" a Latin letter, "z" a letter of another script (neither     *)
(* Latin nor Cyrillic), "." and " ", "k" the keyword "pedo" of the pattern *)
(* of is_offensive_post, "url" the URL "http://a.bc/" and "<p>" the tag.   *)
(* A URL that ends in "/" extends, for URL_REGEX and for http\S*, over the *)
(* characters after it up to the next white space.                         *)

MaxTextLen == 3        \* number of tokens of a text
PadLen == 35           \* number of full stops of the token "pad"

TextTokens == {"a", "z", ".", " ", "k", "url", "<p>"}

\* the characters of a token
token_chars(tok) ==
    IF tok = "url" THEN <<"h", "t", "t", "p", ":", "/", "/", "a", ".", "b", "c", "/">>
    ELSE IF tok = "<p>" THEN <<"<", "p", ">">>
    ELSE IF tok = "k" THEN <<"p", "e", "d", "o">>
    ELSE IF tok = "buy" THEN <<"b", "u", "y">>
    ELSE IF tok = "on" THEN <<"o", "n">>
    ELSE IF tok = "b2" THEN <<"b", "2">>
    ELSE IF tok = "pad" THEN [k \in 1..PadLen |-> "."]
    ELSE IF tok = "what is this "
    THEN <<"w", "h", "a", "t", " ", "i", "s", " ", "t", "h", "i", "s", " ">>
    ELSE IF tok = "what is this"
    THEN <<"w", "h", "a", "t", " ", "i", "s", " ", "t", "h", "i", "s">>
    ELSE IF tok = "What is this "
    THEN <<"W", "h", "a", "t", " ", "i", "s", " ", "t", "h", "i", "s", " ">>
    ELSE IF tok = "http://" THEN <<"h", "t", "t", "p", ":", "/", "/">>
    ELSE <<tok>>

RECURSIVE expand(_)
\* the text as a sequence of characters: len(s) is Len(expand(s))
expand(s) == IF s = <<>> THEN <<>> ELSE token_chars(Head(s)) \o expand(Tail(s))

Letters == {"a", "z", "h", "t", "p", "b", "c", "e", "d", "o", "u", "y", "n"}

\* how often character c occurs
count_char(chars, c) == Cardinality({k \in 1..Len(chars) : chars[k] = c})

\* (False, "") and a hit with its explanation
NoMatch == [hit |-> FALSE, why |-> <<>>]

Match == [hit |-> TRUE, why |-> <<"why">>]

ZeroDivisionError == [error |-> "ZeroDivisionError"]

RECURSIVE drop_urls(_, _)
\* regex.sub(URL_REGEX, "", s), and the http\S* of line 122: the URL and
\* what follows it up to the next white space
drop_urls(s, in_url) ==
    IF s = <<>> THEN <<>>
    ELSE IF Head(s) = "url" THEN drop_urls(Tail(s), TRUE)
    ELSE IF in_url /\ Head(s) # " " THEN drop_urls(Tail(s), TRUE)
    ELSE <<Head(s)>> \o drop_urls(Tail(s), FALSE)

\* lines 535-536: the URLs, then the tags
strip_urls_and_tags(string) == sub_tokens(drop_urls(string, FALSE), {"<p>"}, <<>>)

RECURSIVE strip_http(_)
\* regex.sub('http[^"]*', "", s): from the URL to the end of a text
\* without a double quote
strip_http(s) ==
    IF s = <<>> THEN <<>>
    ELSE IF Head(s) = "url" THEN <<>>
    ELSE <<Head(s)>> \o strip_http(Tail(s))

RECURSIVE split_words(_, _)
\* lines 54-55: the words between the separators, the empty ones dropped
split_words(chars, word) ==
    IF chars = <<>> THEN (IF word = <<>> THEN <<>> ELSE <<word>>)
    ELSE IF Head(chars) \in {" ", ".", "/"}
    THEN (IF word = <<>> THEN <<>> ELSE <<word>>) \o split_words(Tail(chars), <<>>)
    ELSE split_words(Tail(chars), Append(word, Head(chars)))

isalpha(word) == word # <<>> /\ \A k \in 1..Len(word) : word[k] \in Letters

RECURSIVE streak_found_counting_first(_, _, _, _)
\* the loop with a streak that counts the first word of a run
streak_found_counting_first(words, prev, streak, length) ==
    IF words = <<>> THEN <<>>
    ELSE LET word == Head(words)
             st == IF word = prev /\ isalpha(word) /\ Len(word) > 1
                   THEN streak + 1 ELSE 1
         IN  IF st >= 5 /\ 10 * st * Len(word) >= 2 * length THEN <<word>>
             ELSE streak_found_counting_first(Tail(words), word, st, length)

RECURSIVE streak_found(_, _, _, _)
\* lines 56-66: the loop over the words; <<word>> if it returns from inside
\* the loop, <<>> if it runs to its end
streak_found(words, prev, streak, length) ==
    IF words = <<>> THEN <<>>
    ELSE LET word == Head(words)
             st == IF word = prev /\ isalpha(word) /\ Len(word) > 1
                   THEN streak + 1 ELSE 0
         IN  IF st >= 5 /\ 10 * st * Len(word) >= 2 * length THEN <<word>>
             ELSE streak_found(Tail(words), word, st, length)

\* lines 53-67
has_repeated_words(s, site) ==
    LET found == streak_found(split_words(expand(s), <<>>), <<>>, 0, Len(expand(s)))
    IN  IF found # <<>>
        THEN [hit |-> TRUE, why |-> <<"Repeated word: ">> \o found[1]]
        ELSE NoMatch

\* lines 71-79
has_few_characters(s, site) ==
    LET chars == expand(rstrip(sub_tokens(s, {"<p>"}, <<>>)))
        uniques == Cardinality(seq_to_set(chars))
    IN  IF (Len(chars) >= 30 /\ uniques <= 6) \/ (Len(chars) >= 100 /\ uniques <= 15)
        THEN IF uniques <= 15 /\ uniques >= 5 /\ site = "math.stackexchange.com"
             THEN NoMatch ELSE Match
        ELSE NoMatch

RECURSIVE run_length(_)
\* the length of the run of equal characters at the head of the text
run_length(chars) ==
    IF Len(chars) >= 2 /\ chars[2] = chars[1] THEN 1 + run_length(Tail(chars)) ELSE 1

RECURSIVE repeated_length(_)
\* line 87: the total length of the runs of eleven or more equal characters
\* other than white space, digits and the punctuation of the pattern
repeated_length(chars) ==
    IF chars = <<>> THEN 0
    ELSE LET n == run_length(chars)
         IN  IF n >= 11 /\ Head(chars) \notin {" ", ".", "/"}
             THEN n + repeated_length(SubSeq(chars, n + 1, Len(chars)))
             ELSE repeated_length(Tail(chars))

\* lines 83-91
has_repeating_characters(s, site) ==
    LET stripped == strip_http(s)
        chars == expand(stripped)
    IN  IF Len(chars) = 0 \/ Len(chars) >= 300
           \/ \E k \in 1..Len(stripped) : stripped[k] \in {"<pre>", "<code>"}
        THEN NoMatch
        \* 100 * len(match) / len(s)
        ELSE IF Len(chars) = 0 THEN ZeroDivisionError
        ELSE IF 100 * repeated_length(chars) >= 20 * Len(chars) THEN Match
        ELSE NoMatch

\* lines 122-123: what is left of the text without [\W0-9] and http\S*
word_chars(s) ==
    SelectSeq(expand(drop_urls(s, FALSE)), LAMBDA c : c \in Letters)

\* lines 121-126
mostly_non_latin(s, site) ==
    LET non_latin_chars == SelectSeq(word_chars(s), LAMBDA c : c = "z")
    IN  IF 10 * Len(non_latin_chars) > 4 * Len(word_chars(s)) THEN Match ELSE NoMatch

\* the keyword at position k stands between two word boundaries
keyword_at(s, k) ==
    /\ s[k] = "k"
    /\ k = 1 \/ s[k - 1] \in {".", " ", "url", "<p>"}
    /\ k = Len(s) \/ s[k + 1] \in {".", " ", "<p>"}

\* lines 365-383
is_offensive_post(s, site) ==
    IF Len(expand(s)) = 0 THEN NoMatch
    ELSE LET len_of_match ==
                 Len(token_chars("k")) * Cardinality({k \in 1..Len(s) : keyword_at(s, k)})
         \* 1000 * len_of_match / len(s)
         IN  IF Len(expand(s)) = 0 THEN ZeroDivisionError
             ELSE IF 1000 * len_of_match >= 15 * Len(expand(s)) THEN Match
             ELSE NoMatch

\* lines 405-421: the division is inside the loop over the characters found
character_utilization_ratio(s, site) ==
    LET chars == expand(s)
        total_chars == Len(chars)
    IN  IF seq_to_set(chars) # {} /\ total_chars = 0 THEN ZeroDivisionError
        ELSE IF \E c \in seq_to_set(chars) : 100 * count_char(chars, c) > 42 * total_chars
        THEN Match ELSE NoMatch

\* the quotient computed whatever the length
mostly_dots_unguarded(s, site) ==
    LET body == expand(strip_urls_and_tags(s))
    IN  IF Len(body) = 0 THEN ZeroDivisionError
        ELSE IF 10 * count_char(body, ".") >= 4 * Len(body) THEN Match ELSE NoMatch

\* lines 540-549: 'body_length and ...' does not divide by a length of 0
mostly_dots(s, site) ==
    LET body == expand(strip_urls_and_tags(s))
    IN  IF Len(body) # 0 /\ 10 * count_char(body, ".") >= 4 * Len(body)
        THEN Match ELSE NoMatch

RatioDetectors ==
    {"has_repeating_characters", "is_offensive_post", "mostly_dots",
     "character_utilization_ratio", "has_few_characters", "has_repeated_words",
     "mostly_non_latin"}

\* rule['method'](text, post.post_site, post.user_name)
call_method(fn, s, site) ==
    CASE fn = "has_repeating_characters" -> has_repeating_characters(s, site)
      [] fn = "is_offensive_post" -> is_offensive_post(s, site)
      [] fn = "mostly_dots" -> mostly_dots(s, site)
      [] fn = "character_utilization_ratio" -> character_utilization_ratio(s, site)
      [] fn = "has_few_characters" -> has_few_characters(s, site)
      [] fn = "has_repeated_words" -> has_repeated_words(s, site)
      [] fn = "mostly_non_latin" -> mostly_non_latin(s, site)

InitRatio ==
    /\ dt \in [fn : RatioDetectors, s : TextsOver(TextTokens, MaxTextLen),
               site : {"siteA", "math.stackexchange.com"}, pc : {"call"},
               ret : {NoMatch}]
    /\ post = Idle /\ idx = 0 /\ rule = NoRule /\ result = <<>> /\ why = Idle
    /\ calls = <<>> /\ pc = Idle /\ verdict = Idle
    /\ rules = Idle /\ evals = Idle
    /\ gd = Idle /\ psc = Idle /\ norm = Idle /\ lk = Idle
    /\ FramesIdle

\* the detector runs on the text
CallDetector ==
    /\ dt.pc = "call"
    /\ dt' = [dt EXCEPT !.ret = call_method(dt.fn, dt.s, dt.site), !.pc = "returned"]
    /\ UNCHANGED <<engine_vars, rules, evals, gd, psc, norm, lk, frame_vars>>

NextRatio == CallDetector

SpecRatio == InitRatio /\ [][NextRatio]_vars

\* the text that the detector measures, after its own stripping
MeasuredText(fn, s) ==
    CASE fn = "has_repeating_characters" -> expand(strip_http(s))
      [] fn = "mostly_dots" -> expand(strip_urls_and_tags(s))
      [] fn = "has_few_characters" -> expand(rstrip(sub_tokens(s, {"<p>"}, <<>>)))
      [] fn = "mostly_non_latin" -> word_chars(s)
      [] OTHER -> expand(s)

(***************************************************************************)
(* C20.  A ratio detector whose text is empty, or is empty after the       *)
(* detector's own stripping of URLs and tags, returns (False, ""): it      *)
(* neither divides by zero nor reports a hit.  No ratio detector ever      *)
(* divides by zero.                                                        *)
(***************************************************************************)
C20_EmptyTextNoMatch ==
    dt.pc = "returned" =>
        /\ dt.ret # ZeroDivisionError
        /\ MeasuredText(dt.fn, dt.s) = <<>> => dt.ret = NoMatch

\* a text of URLs and tags only: mostly_dots has stripped it to nothing and
\* has returned (False, "")
C20_Witness ==
    /\ dt.pc = "returned" /\ dt.fn = "mostly_dots"
    /\ dt.s # <<>> /\ strip_urls_and_tags(dt.s) = <<>>
    /\ dt.ret = NoMatch

----------------------------------------------------------------------------
(* Further properties of test_post, under Spec *)

\* the body without its soft hyphens and zero-width characters and, for a
\* rule with 'stripcodeblocks', with its code spans replaced
BodySeen(r, p) ==
    LET b1 == sub_tokens(p.body, {"shy"}, <<>>)
    IN  IF r.stripcodeblocks THEN strip_code_blocks(b1) ELSE b1

\* a call of the detector, or of generate_why, on the body of the post
IsBodyCall(c) ==
    /\ c.fn \in {"findall", "method", "finditer"} /\ ~c.whole
    /\ c.text \notin {post.title, post.user_name}

(***************************************************************************)
(* C26.  No rule of FindSpam.rules has the reason 'Phone number detected   *)
(* in {}' that line 1122 tests for, so lines 1123-1124 never run: for      *)
(* every rule and every post, the body handed to the detector still has    *)
(* its <img> and <a> tags, apart from those inside replaced code spans.    *)
(***************************************************************************)
C26_PhoneStripUnreachable ==
    pc \in {"iterated", "raised"} =>
        /\ rule.reason # reason_phone
        /\ \A k \in 1..Len(calls) :
               IsBodyCall(calls[k]) => calls[k].text = BodySeen(rule, post)

\* the pattern rule for phone numbers has been matched against a body that
\* has an image
C26_Witness ==
    /\ pc = "iterated" /\ rule.reason = reason_phone_rule /\ rule.kind = "regex"
    /\ "img" \in seq_to_set(post.body)
    /\ \E k \in 1..Len(calls) :
           /\ calls[k].fn = "findall" /\ IsBodyCall(calls[k])
           /\ "img" \in seq_to_set(calls[k].text)

\* the words that stand for field f in a reason of post p
ReasonWords(f, p) ==
    IF f = "body" THEN {name_body} \cup (IF p.is_answer THEN {name_answer} ELSE {})
    ELSE {FieldWord(f)}

\* the detector of rule' has reported a hit on f, and the rule records hits
\* on f: the field is enabled, or the rule is a whole-post rule
SoundHit(f) ==
    /\ pc' = "iterated" /\ GatePasses(rule', post)
    /\ HitReported(f)
    /\ rule'[f] \/ rule'.kind = "whole_post"

\* the non-empty lines that the iteration appended to why, over all buckets
AddedLineCount ==
    Len(AddedLines("title")) + Len(AddedLines("body")) + Len(AddedLines("username"))

(***************************************************************************)
(* C27.  Every reason that an iteration appends is the reason template of  *)
(* the rule at hand with the placeholder replaced by the word of a field   *)
(* (title, username, body, or answer on an answer post), the gate of that  *)
(* rule has passed, and its detector has reported a hit on that field,     *)
(* which is enabled for the rule or was reported by its whole-post         *)
(* detector.  An iteration in which no hit is reported appends nothing.    *)
(* The reasons of the verdict are the reasons appended, and a call in      *)
(* which nothing was appended returns no reasons and the empty why.        *)
(***************************************************************************)
C27_VerdictSound ==
    [][/\ RuleStep =>
            /\ \A k \in 1..Len(AddedReasons) :
                   \E f \in FieldNames :
                       /\ SoundHit(f)
                       /\ \E w \in ReasonWords(f, post) :
                              AddedReasons[k] = str_replace(rule'.reason, w)
            /\ (~\E f \in FieldNames : HitReported(f)) => NothingAdded
       /\ pc' = "done" =>
            /\ seq_to_set(verdict'.reasons) = seq_to_set(result)
            /\ (result = <<>> /\ chain_why(why) = <<>>) =>
                   verdict' = [reasons |-> <<>>, why |-> <<>>]]_vars

\* after two rules, an answer has the one reason of a hit on its body and
\* the one line of that hit
C27_Witness ==
    /\ pc = "done" /\ idx = 2 /\ post.is_answer
    /\ verdict.reasons = <<str_replace(reason_x, name_answer)>>
    /\ Len(why.body) = 1 /\ why.title = <<>> /\ why.username = <<>>

(***************************************************************************)
(* C28.  The why string of the verdict is non-empty iff its reasons are:   *)
(* an iteration appends a reason iff it appends a non-empty explanation    *)
(* line; a pattern or procedural rule appends, for each field, a reason    *)
(* iff it appends one non-empty line to the bucket of that field (the      *)
(* position line, or the prefixed line of the detector); a whole-post rule *)
(* that appends a reason appends exactly one line.                         *)
(***************************************************************************)
C28_WhyIffReasons ==
    [][/\ RuleStep =>
            /\ AddedReasons # <<>> <=> AddedLineCount > 0
            /\ rule'.kind \in {"regex", "method"} =>
                   \A f \in FieldNames :
                       /\ Len(AddedLines(f)) <= 1
                       /\ Len(AddedLines(f)) = 1 <=>
                              \E w \in ReasonWords(f, post) :
                                  str_replace(rule'.reason, w) \in seq_to_set(AddedReasons)
            /\ rule'.kind = "whole_post" => AddedLineCount <= 1
       /\ result # <<>> <=> chain_why(why) # <<>>
       /\ pc' = "done" => (verdict'.why # <<>> <=> verdict'.reasons # <<>>)]_vars

\* a procedural rule and a pattern rule have hit: the verdict has reasons
\* and a why of a prefixed line and a position line
C28_Witness ==
    /\ pc = "done" /\ idx = 2
    /\ verdict.reasons # <<>> /\ verdict.why # <<>>
    /\ \E i, j \in 1..Len(verdict.why) :
           verdict.why[i] = "why_title" /\ verdict.why[j] = "Position"

(***************************************************************************)
(* C29.  The keys 'answers', 'questions' and 'body_summary' of a rule      *)
(* restrict the matching of the body only: a hit of a gate-passing rule on *)
(* the title or the username, if that field is enabled, adds the reason of *)
(* that field also when the body condition is false (an answer and         *)
(* answers = False, a question and questions = False, a summarized body    *)
(* and body_summary = False).                                              *)
(***************************************************************************)
C29_FlagsRestrictBodyOnly ==
    [][RuleStep /\ ~BodyCondition(rule', post) =>
          \A f \in {"title", "username"} :
              RecordedHit(f) =>
                  /\ str_replace(rule'.reason, FieldWord(f)) \in seq_to_set(AddedReasons)
                  /\ Len(AddedLines(f)) = 1]_vars

\* a rule with questions = False has hit the title and the username of a
\* question, and has not looked at its body
C29_Witness ==
    /\ pc = "iterated" /\ rule.kind = "method" /\ ~post.is_answer
    /\ rule.questions = "False" /\ rule.body_summary /\ rule.body
    /\ rule.title /\ rule.username /\ rule.det = AllHit
    /\ Len(calls) = 2
    /\ result = <<str_replace(rule.reason, name_title),
                  str_replace(rule.reason, name_username)>>
    /\ why.body = <<>>

(***************************************************************************)
(* C30.  A whole-post rule without field flags appends at most one reason  *)
(* and at most one explanation line per post: of the fields its detector   *)
(* reports, the first in the order title, username, body is recorded, and  *)
(* a body hit is recorded with the word body also for an answer.           *)
(***************************************************************************)
C30_WholePostOneReason ==
    [][(/\ RuleStep /\ rule'.kind = "whole_post"
        /\ ~rule'.title /\ ~rule'.username /\ ~rule'.body) =>
          /\ Len(AddedReasons) <= 1 /\ AddedLineCount <= 1
          /\ (pc' = "iterated" /\ \E f \in FieldNames : HitReported(f)) =>
                LET first == IF HitReported("title") THEN "title"
                             ELSE IF HitReported("username") THEN "username"
                             ELSE "body"
                IN  /\ AddedReasons = <<str_replace(rule'.reason, FieldWord(first))>>
                    /\ Len(AddedLines(first)) = 1]_vars

\* the detector has reported the username and the body of an answer: the
\* username is recorded
C30_Witness ==
    /\ pc = "iterated" /\ rule.kind = "whole_post" /\ post.is_answer
    /\ ~rule.title /\ ~rule.username /\ ~rule.body
    /\ rule.det = [title |-> "miss", username |-> "hit", body |-> "hit"]
    /\ result = <<str_replace(rule.reason, name_username)>>
    /\ Len(why.username) = 1 /\ why.body = <<>>

----------------------------------------------------------------------------
(* The scan of a pattern rule and FindSpam.generate_why, lines 1130-1136,  *)
(* 1166-1174 and 1183-1193, for one field.  A text and the literal of a    *)
(* pattern are sequences of characters; a pattern may have a capture group *)
(* around its first character, which findall then reports instead of the   *)
(* whole match.                                                            *)

MaxWhyLen == 4         \* number of characters of a checked text

WhyPatterns ==
    [lit : {<<"a">>, <<"a", "a">>, <<"a", "b">>, <<"b", "a", "b">>}, group : BOOLEAN]

WhyTexts == TextsOver({"a", "b"}, MaxWhyLen)

TypesOfText == {"Title", "Username", "Body"}

Digits == <<"0", "1", "2", "3", "4", "5", "6", "7", "8", "9">>

RECURSIVE str(_)
\* "{}".format(n) for a number n >= 0
str(n) == IF n < 10 THEN <<Digits[n + 1]>> ELSE str(n \div 10) \o <<Digits[(n % 10) + 1]>>

RECURSIVE scan(_, _, _)
\* the spans (0-based start, exclusive end) of the matches of the literal
\* from offset i on: leftmost first, the search resumes at the end of a match
scan(lit, text, i) ==
    IF i + Len(lit) > Len(text) THEN <<>>
    ELSE IF SubSeq(text, i + 1, i + Len(lit)) = lit
    THEN <<<<i, i + Len(lit)>>>> \o scan(lit, text, i + Len(lit))
    ELSE scan(lit, text, i + 1)

\* compiled_regex.finditer(matched_text): the match objects, as spans
finditer(pattern, text) == scan(pattern.lit, text, 0)

\* match.group()
group(text, span) == SubSeq(text, span[1] + 1, span[2])

\* compiled_regex.findall(text): the matched texts, or the texts of the
\* capture group
findall(pattern, text) ==
    LET spans == finditer(pattern, text)
    IN  [k \in 1..Len(spans) |->
            IF pattern.group THEN <<text[spans[k][1] + 1]>> ELSE group(text, spans[k])]

\* the offsets of the span as they are
format_position_zero_based(span, matched_text) ==
    <<"Position ">> \o str(span[1]) \o <<"-">> \o str(span[2]) \o <<": ">> \o matched_text

\* u"Position {}-{}: {}".format(span[0] + 1, span[1] + 1, group)
format_position(span, matched_text) ==
    <<"Position ">> \o str(span[1] + 1) \o <<"-">> \o str(span[2] + 1) \o <<": ">>
    \o matched_text

RECURSIVE join(_, _)
\* sep.join(list)
join(sep, list) ==
    IF list = <<>> THEN <<>>
    ELSE IF Len(list) = 1 THEN Head(list)
    ELSE Head(list) \o sep \o join(sep, Tail(list))

InitWhy ==
    /\ gw \in [pattern : WhyPatterns, text : WhyTexts, type_of_text : TypesOfText,
               matched : {<<>>}, matches : {<<>>}, why_for_matches : {<<>>},
               ret : {<<>>}, pc : {"compiled"}]
    /\ post = Idle /\ idx = 0 /\ rule = NoRule /\ result = <<>> /\ why = Idle
    /\ calls = <<>> /\ pc = Idle /\ verdict = Idle
    /\ rules = Idle /\ evals = Idle
    /\ gd = Idle /\ psc = Idle /\ norm = Idle /\ lk = Idle /\ dt = Idle
    /\ pl = Idle /\ sa = Idle /\ ph = Idle

\* lines 1132-1136: the scan that decides the hit
WhyFindAll ==
    /\ gw.pc = "compiled"
    /\ LET matched == findall(gw.pattern, gw.text)
       IN  gw' = [gw EXCEPT !.matched = matched,
                            !.pc = IF matched # <<>> THEN "hit" ELSE "miss"]
    /\ UNCHANGED <<engine_vars, rules, evals, gd, psc, norm, lk, dt, pl, sa, ph>>

\* lines 1166-1174 and 1185-1187: generate_why is called for the field
WhyBegin ==
    /\ gw.pc = "hit"
    /\ gw' = [gw EXCEPT !.matches = finditer(gw.pattern, gw.text),
                        !.why_for_matches = <<>>, !.pc = "loop"]
    /\ UNCHANGED <<engine_vars, rules, evals, gd, psc, norm, lk, dt, pl, sa, ph>>

\* lines 1188-1191: one match
WhyMatch ==
    /\ gw.pc = "loop" /\ gw.matches # <<>>
    /\ LET span == Head(gw.matches)
       IN  gw' = [gw EXCEPT !.why_for_matches =
                                Append(@, format_position(span, group(gw.text, span))),
                            !.matches = Tail(@)]
    /\ UNCHANGED <<engine_vars, rules, evals, gd, psc, norm, lk, dt, pl, sa, ph>>

\* line 1192
WhyReturn ==
    /\ gw.pc = "loop" /\ gw.matches = <<>>
    /\ gw' = [gw EXCEPT !.ret = <<gw.type_of_text, " - ">> \o join(<<", ">>, gw.why_for_matches),
                        !.pc = "returned"]
    /\ UNCHANGED <<engine_vars, rules, evals, gd, psc, norm, lk, dt, pl, sa, ph>>

NextWhy == WhyFindAll \/ WhyBegin \/ WhyMatch \/ WhyReturn

SpecWhy == InitWhy /\ [][NextWhy]_vars

\* the offsets at which the literal occurs in the text
Occurrences(lit, text) ==
    {i \in 0..(Len(text) - Len(lit)) : SubSeq(text, i + 1, i + Len(lit)) = lit}

\* the starts of the non-overlapping matches: an occurrence is a match iff
\* it does not begin inside an earlier match
MatchStarts(lit, text) ==
    CHOOSE S \in SUBSET Occurrences(lit, text) :
        \A i \in Occurrences(lit, text) :
            i \in S <=> ~\E j \in S : j < i /\ i < j + Len(lit)

\* "Position <start+1>-<end+1>: <matched text>" for the match at offset i
PositionEntry(lit, i) ==
    <<"Position ">> \o str(i + 1) \o <<"-">> \o str(i + Len(lit) + 1) \o <<": ">> \o lit

RECURSIVE EntriesFrom(_, _)
\* the entries of the matches, from left to right, joined by ", "
EntriesFrom(lit, S) ==
    IF S = {} THEN <<>>
    ELSE LET i == CHOOSE i \in S : \A j \in S : i <= j
         IN  PositionEntry(lit, i)
             \o (IF S = {i} THEN <<>> ELSE <<", ">> \o EntriesFrom(lit, S \ {i}))

CountOf(token, line) == Cardinality({k \in 1..Len(line) : line[k] = token})

(***************************************************************************)
(* C21.  The explanation line that generate_why returns for a field hit by *)
(* a pattern is "<Field> - " followed by one entry "Position               *)
(* <start+1>-<end+1>: <matched text>" per non-overlapping match, from left *)
(* to right, joined by ", ", start and end being the 0-based start and the *)
(* exclusive end of the match in the checked text; it has as many entries  *)
(* as the scan that decided the hit found matches.                         *)
(***************************************************************************)
C21_PositionLine ==
    gw.pc = "returned" =>
        /\ gw.ret = <<gw.type_of_text, " - ">>
                    \o EntriesFrom(gw.pattern.lit, MatchStarts(gw.pattern.lit, gw.text))
        /\ CountOf("Position ", gw.ret) = Len(gw.matched)
        /\ Len(gw.matched) >= 1

\* "aa" in "aaaa": two matches, "Body - Position 1-3: aa, Position 3-5: aa"
C21_Witness ==
    /\ gw.pc = "returned" /\ gw.type_of_text = "Body"
    /\ gw.pattern.lit = <<"a", "a">> /\ gw.text = <<"a", "a", "a", "a">>
    /\ gw.ret = <<"Body", " - ", "Position ", "1", "-", "3", ": ", "a", "a", ", ",
                  "Position ", "3", "-", "5", ": ", "a", "a">>

----------------------------------------------------------------------------
(* post_links, lines 424-439, with URL_REGEX of lines 44-50.  A text is a  *)
(* sequence of URL occurrences separated by white space; an occurrence is  *)
(* a scheme (or none), a host and what follows the host, each a sequence   *)
(* of symbols.  The last symbol of a host is its last character.           *)

MaxOccurrences == 2    \* number of URL occurrences in a text

Schemes == {<<>>, <<"http://">>, <<"httl://">>}

\* a host name with an alphanumeric last character, a host name whose
\* top-level domain ends in the inverted exclamation mark (in the class
\* [a-z\u00a1-\uffff] of the pattern, not alphanumeric), an IP address
Hosts == {<<"a.b", "c">>, <<"a.b", "U+00A1">>, <<"1.2.3.", "4">>}

\* nothing, a path, a path followed by the full stop of the sentence
Rests == {<<>>, <<"/x">>, <<"/x", ".">>}

UrlOccurrences == [scheme : Schemes, host : Hosts, rest : Rests]

LinkTexts == TextsOver(UrlOccurrences, MaxOccurrences)

NonAlnum == {"U+00A1", ".", "/x"}

is_ip(host) == host = <<"1.2.3.", "4">>

\* line 430: post.replace('httl://', 'http://')
fix_protocol(occ) ==
    IF occ.scheme = <<"httl://">> THEN [occ EXCEPT !.scheme = <<"http://">>] ELSE occ

\* URL_REGEX has one capture group, which holds an alternation: the scheme,
\* the user and an IP address, or a host name alone.  The port and the path
\* follow the group.  An IP address matches only after a scheme; a host
\* name matches with or without one, the match beginning at the host name.
url_matches(occ) == ~is_ip(occ.host) \/ occ.scheme = <<"http://">>

\* match.group(0)
whole_match(occ) ==
    (IF is_ip(occ.host) THEN occ.scheme ELSE <<>>) \o occ.host \o occ.rest

\* match.group(1), which is what regex.findall returns for the match
group_1(occ) == (IF is_ip(occ.host) THEN occ.scheme ELSE <<>>) \o occ.host

RECURSIVE findall_urls(_)
\* regex.findall(URL_REGEX, post)
findall_urls(text) ==
    IF text = <<>> THEN <<>>
    ELSE (IF url_matches(Head(text)) THEN <<group_1(Head(text))>> ELSE <<>>)
         \o findall_urls(Tail(text))

\* l[-1].isalnum()
last_isalnum(l) == l[Len(l)] \notin NonAlnum

InitLinks ==
    /\ pl \in [post : LinkTexts, found : {<<>>}, links : {<<>>}, ret : {{}},
               pc : {"call"}]
    /\ post = Idle /\ idx = 0 /\ rule = NoRule /\ result = <<>> /\ why = Idle
    /\ calls = <<>> /\ pc = Idle /\ verdict = Idle
    /\ rules = Idle /\ evals = Idle
    /\ gd = Idle /\ psc = Idle /\ norm = Idle /\ lk = Idle /\ dt = Idle
    /\ gw = Idle /\ sa = Idle /\ ph = Idle

\* lines 429-430
FixProtocols ==
    /\ pl.pc = "call"
    /\ pl' = [pl EXCEPT !.post = [k \in 1..Len(pl.post) |-> fix_protocol(pl.post[k])],
                        !.pc = "fixed"]
    /\ UNCHANGED <<engine_vars, rules, evals, gd, psc, norm, lk, dt, gw, sa, ph>>

\* lines 432-433
FindLinks ==
    /\ pl.pc = "fixed"
    /\ pl' = [pl EXCEPT !.found = findall_urls(pl.post), !.pc = "loop"]
    /\ UNCHANGED <<engine_vars, rules, evals, gd, psc, norm, lk, dt, gw, sa, ph>>

\* lines 434-435
AppendLink ==
    /\ pl.pc = "loop" /\ pl.found # <<>> /\ last_isalnum(Head(pl.found))
    /\ pl' = [pl EXCEPT !.links = Append(@, Head(pl.found)), !.found = Tail(@)]
    /\ UNCHANGED <<engine_vars, rules, evals, gd, psc, norm, lk, dt, gw, sa, ph>>

\* lines 436-437
AppendTrimmed ==
    /\ pl.pc = "loop" /\ pl.found # <<>> /\ ~last_isalnum(Head(pl.found))
    /\ pl' = [pl EXCEPT !.links = Append(@, SubSeq(Head(pl.found), 1, Len(Head(pl.found)) - 1)),
                        !.found = Tail(@)]
    /\ UNCHANGED <<engine_vars, rules, evals, gd, psc, norm, lk, dt, gw, sa, ph>>

\* line 439
ReturnLinks ==
    /\ pl.pc = "loop" /\ pl.found = <<>>
    /\ pl' = [pl EXCEPT !.ret = seq_to_set(pl.links), !.pc = "returned"]
    /\ UNCHANGED <<engine_vars, rules, evals, gd, psc, norm, lk, dt, gw, sa, ph>>

NextLinks == FixProtocols \/ FindLinks \/ AppendLink \/ AppendTrimmed \/ ReturnLinks

SpecLinks == InitLinks /\ [][NextLinks]_vars

\* a match without its last character, unless that is alphanumeric
Trimmed(m) == IF m[Len(m)] \in NonAlnum THEN SubSeq(m, 1, Len(m) - 1) ELSE m

(***************************************************************************)
(* C22.  post_links returns the set of the URL-shaped matches of the text  *)
(* (after httl:// has been replaced by http://), each unchanged if its     *)
(* last character is alphanumeric and without its last character           *)
(* otherwise.                                                              *)
(***************************************************************************)
C22_LinksAreTrimmedMatches ==
    pl.pc = "returned" =>
        pl.ret = {Trimmed(whole_match(pl.post[k])) :
                      k \in {j \in 1..Len(pl.post) : url_matches(pl.post[j])}}

----------------------------------------------------------------------------
(* has_repeated_words, lines 53-67, on texts of words: the words "buy" and *)
(* "on", the one-letter word "a" and "b2", which is not alphabetic,        *)
(* separated by single spaces and followed by runs of PadLen full stops    *)

MaxWords == 6          \* number of words of a text
MaxPads == 1           \* number of runs of full stops after the words

Words == {"buy", "on", "a", "b2"}

\* the text of the words, as a sequence of tokens
text_of(words, pads) ==
    join(<<" ">>, [k \in 1..Len(words) |-> <<words[k]>>]) \o [k \in 1..pads |-> "pad"]

WordTexts == {text_of(ws, n) : ws \in TextsOver(Words, MaxWords), n \in 0..MaxPads}

InitWords ==
    /\ dt \in [fn : {"has_repeated_words"}, s : WordTexts, site : {"siteA"},
               pc : {"call"}, ret : {NoMatch}]
    /\ post = Idle /\ idx = 0 /\ rule = NoRule /\ result = <<>> /\ why = Idle
    /\ calls = <<>> /\ pc = Idle /\ verdict = Idle
    /\ rules = Idle /\ evals = Idle
    /\ gd = Idle /\ psc = Idle /\ norm = Idle /\ lk = Idle
    /\ FramesIdle

NextWords == CallDetector

SpecWords == InitWords /\ [][NextWords]_vars

\* the words of a text, in order
WordsOf(s) == SelectSeq(s, LAMBDA tok : tok \in Words)

\* the number of copies of ws[k] that precede it without interruption
CopiesBefore(ws, k) ==
    Cardinality({j \in 1..(k - 1) : \A i \in j..k : ws[i] = ws[k]})

\* the word at position k ends a run that makes the text a hit
RepeatedAt(s, k) ==
    LET ws == WordsOf(s)
        word == token_chars(ws[k])
    IN  /\ CopiesBefore(ws, k) >= 5
        /\ \A c \in seq_to_set(word) : c \in Letters
        /\ Len(word) > 1
        /\ 5 * CopiesBefore(ws, k) * Len(word) >= Len(expand(s))

(***************************************************************************)
(* C23.  has_repeated_words(s) reports a hit iff some word of s is         *)
(* preceded by at least 5 consecutive copies of itself, is alphabetic with *)
(* more than one letter, and 5 * streak * len(word) >= len(s), the streak  *)
(* being the number of those copies; the hit names the first such word.    *)
(* "buy" six times, separated by spaces, hits with the word buy; five      *)
(* times does not hit.                                                     *)
(***************************************************************************)
C23_RepeatedWords ==
    (dt.pc = "returned" /\ dt.fn = "has_repeated_words") =>
        LET ws == WordsOf(dt.s)
            hits == {k \in 1..Len(ws) : RepeatedAt(dt.s, k)}
        IN  /\ dt.ret.hit <=> hits # {}
            /\ hits # {} =>
                   LET k == CHOOSE k \in hits : \A j \in hits : k <= j
                   IN  dt.ret.why = <<"Repeated word: ">> \o token_chars(ws[k])
            /\ hits = {} => dt.ret = NoMatch
            /\ dt.s = text_of(<<"buy", "buy", "buy", "buy", "buy", "buy">>, 0) =>
                   dt.ret = [hit |-> TRUE, why |-> <<"Repeated word: ", "b", "u", "y">>]
            /\ dt.s = text_of(<<"buy", "buy", "buy", "buy", "buy">>, 0) => dt.ret = NoMatch

\* Scenario B: "buy buy buy buy buy buy"
C23_Witness ==
    /\ dt.pc = "returned" /\ dt.fn = "has_repeated_words"
    /\ dt.s = <<"buy", " ", "buy", " ", "buy", " ", "buy", " ", "buy", " ", "buy">>
    /\ dt.ret = [hit |-> TRUE, why |-> <<"Repeated word: ", "b", "u", "y">>]

----------------------------------------------------------------------------
(* what_is_this_pharma_title, lines 230-234, and the rule of lines 710-712 *)
(* built on it, evaluated by test_post.  A title is a sequence of pieces:  *)
(* the phrase with and without its last space, the phrase with a capital   *)
(* W, a capital letter, a small letter, and "http://".                     *)

MaxPieces == 3         \* number of pieces of a title

TitlePieces == {"what is this ", "what is this", "What is this ", "V", "v", "http://"}

UpperCase == {"V", "W"}

\* s[i:].startswith(prefix), over characters, for a 0-based offset i
startswith(chars, i, prefix) ==
    /\ Len(chars) >= i + Len(prefix)
    /\ SubSeq(chars, i + 1, i + Len(prefix)) = prefix

PharmaMatch == [hit |-> TRUE, why |-> <<"Title starts with \"what is this\"">>]

\* the pattern with the flag regex.IGNORECASE
what_is_this_pharma_title_ignorecase(s, site) ==
    LET chars == expand(s)
        phrase == token_chars("what is this ")
    IN  IF /\ \/ startswith(chars, 0, phrase)
              \/ startswith(chars, 0, token_chars("What is this "))
           /\ \/ Len(chars) > Len(phrase) /\ chars[Len(phrase) + 1] \in UpperCase \cup {"v"}
              \/ startswith(chars, Len(phrase), token_chars("http://"))
        THEN PharmaMatch ELSE NoMatch

\* lines 230-234: regex.compile(r'^what is this (?:[A-Z]|http://)').match(s)
what_is_this_pharma_title(s, site) ==
    LET chars == expand(s)
        phrase == token_chars("what is this ")
    IN  IF /\ startswith(chars, 0, phrase)
           /\ \/ Len(chars) > Len(phrase) /\ chars[Len(phrase) + 1] \in UpperCase
              \/ startswith(chars, Len(phrase), token_chars("http://"))
        THEN PharmaMatch ELSE NoMatch

\* 'Pattern-matching title', a reason without placeholder
reason_pattern_title == <<16 - 32, 20, 20, 9, 20, 12, 5>>

\* what the detector reports, as the outcome of a call
outcome(ret) == IF ret.hit THEN "hit" ELSE "miss"

\* the rule of lines 710-712, with what its detector finds on the texts of p
pharma_rule(p) ==
    [kind |-> "method", all |-> TRUE, sites |-> {}, max_rep |-> 1, max_score |-> 1,
     title |-> TRUE, body |-> FALSE, username |-> FALSE,
     body_summary |-> FALSE, answers |-> "False", questions |-> "absent",
     stripcodeblocks |-> FALSE, reason |-> reason_pattern_title,
     det |-> [title |-> outcome(what_is_this_pharma_title(p.title, p.post_site)),
              username |-> outcome(what_is_this_pharma_title(p.user_name, p.post_site)),
              body |-> outcome(what_is_this_pharma_title(p.body, p.post_site))]]

PharmaPosts ==
    [title : TextsOver(TitlePieces, MaxPieces), body : {<<"v">>}, user_name : {<<"V">>},
     post_site : {"siteA"}, owner_rep : 1..MaxOwnerRep,
     post_score : 0..(MaxPostScore + 1),
     is_answer : BOOLEAN, body_is_summary : {FALSE}]

InitPharma ==
    /\ ph \in [frame : {new_frame(p) : p \in PharmaPosts}, title_ret : {NoMatch}]
    /\ post = Idle /\ idx = 0 /\ rule = NoRule /\ result = <<>> /\ why = Idle
    /\ calls = <<>> /\ pc = Idle /\ verdict = Idle
    /\ rules = Idle /\ evals = Idle
    /\ gd = Idle /\ psc = Idle /\ norm = Idle /\ lk = Idle /\ dt = Idle
    /\ gw = Idle /\ pl = Idle /\ sa = Idle

\* lines 1103-1176 for the rule
PharmaIterate ==
    /\ ph.frame.pc = "loop" /\ ph.frame.idx = 0
    /\ ph' = [frame |-> iterate(ph.frame, pharma_rule(ph.frame.post)),
              title_ret |-> what_is_this_pharma_title(ph.frame.post.title,
                                                      ph.frame.post.post_site)]
    /\ UNCHANGED <<engine_vars, rules, evals, gd, psc, norm, lk, dt, gw, pl, sa>>

\* lines 1177-1181
PharmaReturn ==
    /\ ph.frame.pc = "loop" /\ ph.frame.idx = 1
    /\ ph' = [ph EXCEPT !.frame = return_frame(ph.frame)]
    /\ UNCHANGED <<engine_vars, rules, evals, gd, psc, norm, lk, dt, gw, pl, sa>>

NextPharma == PharmaIterate \/ PharmaReturn

SpecPharma == InitPharma /\ [][NextPharma]_vars

\* the title begins with the phrase, followed by a capital letter or by
\* "http://"
PharmaTitle(title) ==
    /\ Len(title) >= 2
    /\ title[1] = "what is this "
    /\ title[2] = "http://" \/ Head(token_chars(title[2])) \in UpperCase

(***************************************************************************)
(* C24.  what_is_this_pharma_title hits on a title, reporting 'Title       *)
(* starts with "what is this"', iff the title begins with "what is this "  *)
(* followed by a capital letter or by "http://"; the rule of lines 710-712 *)
(* then adds its reason 'Pattern-matching title' to the verdict of a post  *)
(* with owner_rep <= 1 and post_score <= 1, and of no other post.          *)
(***************************************************************************)
C24_PharmaTitle ==
    ph.frame.pc = "done" =>
        LET p == ph.frame.post
        IN  /\ ph.title_ret = (IF PharmaTitle(p.title) THEN PharmaMatch ELSE NoMatch)
            /\ ph.frame.verdict.reasons =
                   (IF PharmaTitle(p.title) /\ p.owner_rep <= 1 /\ p.post_score <= 1
                    THEN <<reason_pattern_title>> ELSE <<>>)
            /\ ph.frame.verdict.why # <<>> <=> ph.frame.verdict.reasons # <<>>

\* Scenario A: "what is this V...", by a user of reputation 1, score 1
C24_Witness ==
    /\ ph.frame.pc = "done"
    /\ ph.frame.post.title = <<"what is this ", "V", "v">>
    /\ ph.frame.post.owner_rep = 1 /\ ph.frame.post.post_score = 1
    /\ ph.title_ret = PharmaMatch
    /\ ph.frame.verdict.reasons = <<reason_pattern_title>>

----------------------------------------------------------------------------
(* similar_answer, lines 515-531.  A post has a post_id, a body (a text of *)
(* tokens, as for the ratio detectors) and a parent: None, or a question   *)
(* with the list of its answers.                                           *)

MaxAnswers == 2        \* number of answers of the parent question
MaxPostId == 3         \* post ids range over 1..MaxPostId

SIMILAR_ANSWER_THRESHOLD == <<7, 10>>

None == [answers |-> "None"]

\* "aab"; the same with a URL and a tag; "aaab" (ratio 6/7 with "aab");
\* "abb" (ratio 4/6 with "aab"); the empty body
AnswerBodies ==
    {<<"a", "a", "b">>, <<"<p>", "a", "a", "b", " ", "url">>, <<"a", "a", "a", "b">>,
     <<"a", "b", "b">>, <<>>}

Answers == [post_id : 1..MaxPostId, body : AnswerBodies]

Questions == [answers : TextsOver(Answers, MaxAnswers)]

\* the answer with post_id 1, or a question (no parent)
AnswerPosts ==
    [post_id : {1}, body : {<<"a", "a", "b">>, <<"a", "b", "b">>, <<>>},
     parent : Questions \cup {None}]

\* (False, False, False, "")
NoAnswerHit == [title |-> FALSE, username |-> FALSE, body |-> FALSE, why |-> <<>>]

\* (False, False, True, u"Answer similar to answer {}, ratio {}".format(...))
AnswerHit(post_id, r) ==
    [title |-> FALSE, username |-> FALSE, body |-> TRUE,
     why |-> <<"Answer similar to answer ">> \o str(post_id) \o <<", ratio ">>
             \o str(r[1]) \o <<"/">> \o str(r[2])]

\* every answer of the question compared, the post itself included
is_other_answer_always(post_, other_answer) == TRUE

\* line 523
is_other_answer(post_, other_answer) == other_answer.post_id # post_.post_id

\* lines 520 and 524, then line 525
answer_ratio(post_, other_answer) ==
    similar_ratio(expand(strip_urls_and_tags(post_.body)),
                  expand(strip_urls_and_tags(other_answer.body)))

InitAnswer ==
    /\ sa \in [post : AnswerPosts, i : {1}, compared : {<<>>}, ret : {NoAnswerHit},
               pc : {"call"}]
    /\ post = Idle /\ idx = 0 /\ rule = NoRule /\ result = <<>> /\ why = Idle
    /\ calls = <<>> /\ pc = Idle /\ verdict = Idle
    /\ rules = Idle /\ evals = Idle
    /\ gd = Idle /\ psc = Idle /\ norm = Idle /\ lk = Idle /\ dt = Idle
    /\ gw = Idle /\ pl = Idle /\ ph = Idle

\* lines 516-517
AnswerNoParent ==
    /\ sa.pc = "call" /\ sa.post.parent = None
    /\ sa' = [sa EXCEPT !.ret = NoAnswerHit, !.pc = "returned"]
    /\ UNCHANGED <<engine_vars, rules, evals, gd, psc, norm, lk, dt, gw, pl, ph>>

\* lines 519-520
AnswerBegin ==
    /\ sa.pc = "call" /\ sa.post.parent # None
    /\ sa' = [sa EXCEPT !.i = 1, !.pc = "loop"]
    /\ UNCHANGED <<engine_vars, rules, evals, gd, psc, norm, lk, dt, gw, pl, ph>>

AtAnswer == sa.pc = "loop" /\ sa.i <= Len(sa.post.parent.answers)

\* lines 522-523: the answer is the post itself
AnswerSkipSelf ==
    /\ AtAnswer /\ ~is_other_answer(sa.post, sa.post.parent.answers[sa.i])
    /\ sa' = [sa EXCEPT !.i = @ + 1]
    /\ UNCHANGED <<engine_vars, rules, evals, gd, psc, norm, lk, dt, gw, pl, ph>>

\* lines 522-527: another answer, below the threshold
AnswerDiffers ==
    /\ AtAnswer /\ is_other_answer(sa.post, sa.post.parent.answers[sa.i])
    /\ ~rat_ge(answer_ratio(sa.post, sa.post.parent.answers[sa.i]), SIMILAR_ANSWER_THRESHOLD)
    /\ sa' = [sa EXCEPT !.i = @ + 1, !.compared = Append(@, sa.i)]
    /\ UNCHANGED <<engine_vars, rules, evals, gd, psc, norm, lk, dt, gw, pl, ph>>

\* lines 522-529: another answer, at or above the threshold
AnswerSimilar ==
    /\ AtAnswer /\ is_other_answer(sa.post, sa.post.parent.answers[sa.i])
    /\ LET other_answer == sa.post.parent.answers[sa.i]
           r == answer_ratio(sa.post, other_answer)
       IN  /\ rat_ge(r, SIMILAR_ANSWER_THRESHOLD)
           /\ sa' = [sa EXCEPT !.compared = Append(@, sa.i),
                               !.ret = AnswerHit(other_answer.post_id, r),
                               !.pc = "returned"]
    /\ UNCHANGED <<engine_vars, rules, evals, gd, psc, norm, lk, dt, gw, pl, ph>>

\* line 531
AnswerReturnFalse ==
    /\ sa.pc = "loop" /\ sa.i > Len(sa.post.parent.answers)
    /\ sa' = [sa EXCEPT !.ret = NoAnswerHit, !.pc = "returned"]
    /\ UNCHANGED <<engine_vars, rules, evals, gd, psc, norm, lk, dt, gw, pl, ph>>

NextAnswer ==
    \/ AnswerNoParent \/ AnswerBegin \/ AnswerSkipSelf \/ AnswerDiffers
    \/ AnswerSimilar \/ AnswerReturnFalse

SpecAnswer == InitAnswer /\ [][NextAnswer]_vars

\* the positions, in the answers of the parent, of the answers with another
\* post_id than the post
OtherAnswers(p) ==
    {k \in 1..Len(p.parent.answers) : p.parent.answers[k].post_id # p.post_id}

\* the body of the post and the body of answer k, without URLs and tags, have
\* a similarity of at least 0.7
SimilarTo(p, k) ==
    LET a == expand(strip_urls_and_tags(p.body))
        b == expand(strip_urls_and_tags(p.parent.answers[k].body))
    IN  10 * 2 * matching_count(lower(a), lower(b)) >= 7 * (Len(a) + Len(b))
        \/ (a = <<>> /\ b = <<>>)

\* the positions of S up to n, in ascending order
RECURSIVE Ascending(_, _)
Ascending(S, n) ==
    IF n = 0 THEN <<>>
    ELSE Ascending(S, n - 1) \o (IF n \in S THEN <<n>> ELSE <<>>)

(***************************************************************************)
(* C25.  similar_answer(post) reports no hit when the post has no parent.  *)
(* Otherwise it compares the body of the post, without URLs and tags, with *)
(* the body of every answer of the parent whose post_id differs from the   *)
(* post's, in the order of the answers, up to and including the first one  *)
(* with a similarity of at least 0.7: it reports a body hit naming that    *)
(* answer, and no hit if there is none.  It never reports a title or a     *)
(* username hit and never compares the post with itself.                   *)
(***************************************************************************)
C25_SimilarAnswer ==
    sa.pc = "returned" =>
        /\ ~sa.ret.title /\ ~sa.ret.username
        /\ sa.post.parent = None => sa.ret = NoAnswerHit /\ sa.compared = <<>>
        /\ sa.post.parent # None =>
             LET p == sa.post
                 answers == p.parent.answers
                 hits == {k \in OtherAnswers(p) : SimilarTo(p, k)}
             IN  /\ sa.ret.body <=> hits # {}
                 /\ \A n \in 1..Len(sa.compared) :
                        answers[sa.compared[n]].post_id # p.post_id
                 /\ hits = {} =>
                        /\ sa.ret = NoAnswerHit
                        /\ sa.compared = Ascending(OtherAnswers(p), Len(answers))
                 /\ hits # {} =>
                        LET first == CHOOSE k \in hits : \A j \in hits : k <= j
                        IN  /\ sa.compared = Ascending(OtherAnswers(p), first)
                            /\ SubSeq(sa.ret.why, 1, 2) =
                                   <<"Answer similar to answer ">>
                                   \o str(answers[first].post_id)

\* the answers of the question are the post itself, then an answer that is
\* similar without its tag and its URL
C25_Witness ==
    /\ sa.pc = "returned" /\ sa.ret.body
    /\ sa.post.body = <<"a", "a", "b">>
    /\ Len(sa.post.parent.answers) = 2
    /\ sa.post.parent.answers[1] = [post_id |-> 1, body |-> <<"a", "a", "b">>]
    /\ sa.post.parent.answers[2].post_id = 3
    /\ sa.post.parent.answers[2].body = <<"<p>", "a", "a", "b", " ", "url">>
    /\ sa.compared = <<2>>

====
